---- MODULE Spec2Model ----
(***************************************************************************)
(* A model of the polymarket trading bot's decision and risk-allocation    *)
(* engine: TradingEngine (start/stop, scanMarkets,                         *)
(* checkTradingOpportunities, calculateKellyAmount, executeTrade,          *)
(* settlePaperTrades), analyzeMarket of the composite strategy, and the    *)
(* parts of the database and of the server the engine depends on.          *)
(*                                                                         *)
(* JavaScript numbers are modelled as exact rationals <<n, d>> (d > 0, in  *)
(* lowest terms); NaN is <<0, 0>>.  Every await of the source is a point   *)
(* where another handler may run; the code between two awaits is one       *)
(* atomic step, as in Node's run-to-completion scheduling.                 *)
(***************************************************************************)
EXTENDS Integers, Sequences, FiniteSets, TLC

(***************************************************************************)
(* Numbers                                                                 *)
(***************************************************************************)
Abs(x) == IF x < 0 THEN -x ELSE x

RECURSIVE GCD(_, _)
GCD(a, b) == IF b = 0 THEN a ELSE GCD(b, a % b)

NaN == <<0, 0>>

IsNaN(x) == x[2] = 0

\* the rational n/d in lowest terms with a positive denominator; x/0 is NaN
\* (the model never divides a non-zero number by zero)
Rat(n, d) ==
  IF d = 0 THEN NaN
  ELSE LET g == GCD(Abs(n), Abs(d))
           s == IF d < 0 THEN -1 ELSE 1
       IN  <<(s * n) \div g, (s * d) \div g>>

Zero == Rat(0, 1)
One == Rat(1, 1)

RatAdd(x, y) == IF IsNaN(x) \/ IsNaN(y) THEN NaN
                ELSE Rat(x[1] * y[2] + y[1] * x[2], x[2] * y[2])
RatNeg(x) == IF IsNaN(x) THEN NaN ELSE <<-x[1], x[2]>>
RatSub(x, y) == RatAdd(x, RatNeg(y))
RatMul(x, y) == IF IsNaN(x) \/ IsNaN(y) THEN NaN
                ELSE Rat(x[1] * y[1], x[2] * y[2])
RatDiv(x, y) == IF IsNaN(x) \/ IsNaN(y) THEN NaN
                ELSE Rat(x[1] * y[2], x[2] * y[1])
\* comparisons are false when either side is NaN, as in IEEE 754
RatLt(x, y) == ~IsNaN(x) /\ ~IsNaN(y) /\ x[1] * y[2] < y[1] * x[2]
RatLe(x, y) == ~IsNaN(x) /\ ~IsNaN(y) /\ x[1] * y[2] <= y[1] * x[2]
RatGt(x, y) == RatLt(y, x)
RatGe(x, y) == RatLe(y, x)
\* Math.min / Math.max: NaN if either argument is NaN
RatMin(x, y) == IF IsNaN(x) \/ IsNaN(y) THEN NaN ELSE IF RatLe(x, y) THEN x ELSE y
RatMax(x, y) == IF IsNaN(x) \/ IsNaN(y) THEN NaN ELSE IF RatGe(x, y) THEN x ELSE y
RatAbs(x) == IF IsNaN(x) THEN NaN ELSE <<Abs(x[1]), x[2]>>
\* Math.sign
RatSign(x) == IF IsNaN(x) THEN NaN
              ELSE IF x[1] > 0 THEN One ELSE IF x[1] < 0 THEN RatNeg(One) ELSE Zero
\* JavaScript truthiness of a number: 0 and NaN are falsy
Truthy(x) == ~IsNaN(x) /\ x[1] # 0
\* parseFloat(v) || dflt, for a configuration value v that is a number
OrDefault(v, dflt) == IF Truthy(v) THEN v ELSE dflt

\* the value null of an amount
Null == <<0, -1>>
IsNull(x) == x = Null

(***************************************************************************)
(* Position sizer: TradingEngine.calculateKellyAmount                      *)
(***************************************************************************)
DEFAULT_TRADE_AMOUNT == Rat(10, 1)
DEFAULT_BANKROLL == Rat(100, 1)
MIN_PROBABILITY == Rat(5, 100)
MAX_PROBABILITY == Rat(95, 100)
ODDS_EPSILON == Rat(1, 100)
MAX_KELLY_FRACTION == Rat(25, 100)
MIN_TRADE == Rat(1, 1)
MAX_TRADE_MULTIPLIER == Rat(2, 1)

\* the price of the token the outcome buys
TokenPrice(outcome, prices) ==
  IF outcome = "YES" THEN prices.yes_price ELSE prices.no_price

\* !price || price <= 0 || price >= 1
InvalidPrice(price) ==
  ~Truthy(price) \/ RatLe(price, Zero) \/ RatGe(price, One)

\* compositeScore * (outcome === 'YES' ? 1 : -1)
AlignedEdge(compositeScore, outcome) ==
  RatMul(compositeScore, IF outcome = "YES" THEN One ELSE RatNeg(One))

\* the Kelly fraction without the probability of losing
KellyFraction_noLossTerm(estimatedProb, odds) ==
  RatDiv(RatMul(estimatedProb, RatSub(odds, One)), RatSub(odds, One))

\* ((estimatedProb * (odds - 1)) - (1 - estimatedProb)) / (odds - 1)
KellyFraction(estimatedProb, odds) ==
  RatDiv(RatSub(RatMul(estimatedProb, RatSub(odds, One)),
                RatSub(One, estimatedProb)),
         RatSub(odds, One))

\* Math.min(MAX_TRADE, Math.max(MIN_TRADE, tradeAmount)), without the floor
ClampTradeNoFloor(tradeAmount, maxTrade) == RatMin(maxTrade, tradeAmount)

\* Math.min(MAX_TRADE, Math.max(MIN_TRADE, tradeAmount))
ClampTrade(tradeAmount, maxTrade) ==
  RatMin(maxTrade, RatMax(MIN_TRADE, tradeAmount))

\* the Kelly-sized amount, or Null when the trade is to be skipped
calculateKellyAmount(analysis, prices, config) ==
  LET baseAmount == OrDefault(config.tradeAmount, DEFAULT_TRADE_AMOUNT)
      bankroll == OrDefault(config.bankroll, DEFAULT_BANKROLL)
      outcome == analysis.outcome
      price == TokenPrice(outcome, prices)
      impliedProb == price
      alignedEdge == AlignedEdge(analysis.compositeScore, outcome)
      estimatedProb ==
        RatMin(MAX_PROBABILITY,
               RatMax(MIN_PROBABILITY, RatAdd(impliedProb, alignedEdge)))
      odds == RatDiv(One, price)
      kellyFraction == KellyFraction(estimatedProb, odds)
      cappedHalfKelly ==
        RatMin(MAX_KELLY_FRACTION,
               RatMax(Zero, RatDiv(kellyFraction, Rat(2, 1))))
      tradeAmount == RatMul(cappedHalfKelly, bankroll)
      MAX_TRADE == RatMul(baseAmount, MAX_TRADE_MULTIPLIER)
  IN  IF InvalidPrice(price) THEN Null
      ELSE IF RatLe(alignedEdge, Zero) THEN Null
      ELSE IF RatLt(RatAbs(RatSub(odds, One)), ODDS_EPSILON) THEN Null
      ELSE IF RatLe(kellyFraction, Zero) THEN Null
      ELSE ClampTrade(tradeAmount, MAX_TRADE)

(***************************************************************************)
(* Composite analyzer: analyzeMarket                                       *)
(***************************************************************************)
DEFAULT_WEIGHTS ==
  [technical |-> Rat(45, 100), news |-> Rat(30, 100), orderFlow |-> Rat(25, 100)]

\* A provider's settled promise: status "fulfilled" with the value's score,
\* its error flag and (order flow) its confidence, or status "rejected".
Rejected == [status |-> "rejected", score |-> Zero, error |-> TRUE, confidence |-> Zero]
Fulfilled(score, error, confidence) ==
  [status |-> "fulfilled", score |-> score, error |-> error, confidence |-> confidence]

\* result.status === 'fulfilled' && result.value.score !== undefined && !result.value.error
\* (every provider's value carries a score)
isStrategySuccessful(result) ==
  result.status = "fulfilled" /\ ~result.error

\* the score taken from a settled provider: 0 when it rejected
ScoreOf(result) == IF result.status = "fulfilled" THEN result.score ELSE Zero

\* the weight as it was, without redistribution
Share_raw(weight, successfulWeight) == weight

\* s.weight / successfulWeight
Share(weight, successfulWeight) == RatDiv(weight, successfulWeight)

\* the weights after redistribution from the failed strategies
AdjustedWeights(technical, news, orderFlow, weights) ==
  LET okT == isStrategySuccessful(technical)
      okN == isStrategySuccessful(news)
      okO == isStrategySuccessful(orderFlow)
      successfulWeight ==
        RatAdd(RatAdd(RatAdd(Zero, IF okT THEN weights.technical ELSE Zero),
                      IF okN THEN weights.news ELSE Zero),
               IF okO THEN weights.orderFlow ELSE Zero)
  IN  IF okT \/ okN \/ okO
      THEN [technical |-> IF okT THEN Share(weights.technical, successfulWeight) ELSE Zero,
            news      |-> IF okN THEN Share(weights.news, successfulWeight) ELSE Zero,
            orderFlow |-> IF okO THEN Share(weights.orderFlow, successfulWeight) ELSE Zero]
      ELSE weights

\* taScore * w.technical + newsScore * w.news + ofScore * w.orderFlow
CompositeScore(taScore, newsScore, ofScore, w) ==
  RatAdd(RatAdd(RatMul(taScore, w.technical), RatMul(newsScore, w.news)),
         RatMul(ofScore, w.orderFlow))

\* the confidence from the agreement of the three signals alone
Confidence_noLiquidity(taScore, newsScore, ofScore, compositeScore, ofConfidence) ==
  LET signals == <<taScore, newsScore, ofScore>>
      allSameDirection ==
        \/ \A i \in 1..3 : RatGt(signals[i], Zero)
        \/ \A i \in 1..3 : RatLt(signals[i], Zero)
      compositeDirection == RatSign(compositeScore)
      agreeingSignals ==
        Cardinality({i \in 1..3 : /\ ~IsNaN(compositeDirection)
                                  /\ RatSign(signals[i]) = compositeDirection})
  IN  IF allSameDirection THEN Rat(9, 10) ELSE Rat(agreeingSignals, 3)

\* the confidence from the agreement of the three signals, blended with the
\* order flow's liquidity confidence
Confidence(taScore, newsScore, ofScore, compositeScore, ofConfidence) ==
  LET signals == <<taScore, newsScore, ofScore>>
      allSameDirection ==
        \/ \A i \in 1..3 : RatGt(signals[i], Zero)
        \/ \A i \in 1..3 : RatLt(signals[i], Zero)
      compositeDirection == RatSign(compositeScore)
      agreeingSignals ==
        Cardinality({i \in 1..3 : /\ ~IsNaN(compositeDirection)
                                  /\ RatSign(signals[i]) = compositeDirection})
      base == IF allSameDirection THEN Rat(9, 10) ELSE Rat(agreeingSignals, 3)
  IN  RatAdd(RatMul(base, Rat(7, 10)), RatMul(ofConfidence, Rat(3, 10)))

MIN_COMPOSITE_SCORE == Rat(35, 100)
MIN_CONFIDENCE == Rat(50, 100)
STRONG_COMPOSITE_SCORE == Rat(5, 10)
STRONG_CONFIDENCE == Rat(65, 100)
LOW_LIQUIDITY_CONFIDENCE == Rat(3, 10)

\* the decision with the moderate thresholds tested before the strong ones
Decide_moderateFirst(compositeScore, confidence) ==
  IF RatGt(compositeScore, MIN_COMPOSITE_SCORE) /\ RatGt(confidence, MIN_CONFIDENCE)
  THEN [decision |-> "BUY", outcome |-> "YES", tradeAmount |-> "normal"]
  ELSE IF RatLt(compositeScore, RatNeg(MIN_COMPOSITE_SCORE)) /\ RatGt(confidence, MIN_CONFIDENCE)
  THEN [decision |-> "BUY", outcome |-> "NO", tradeAmount |-> "normal"]
  ELSE [decision |-> "HOLD", outcome |-> "null", tradeAmount |-> "normal"]

\* the decision before the low-liquidity downgrade
Decide(compositeScore, confidence) ==
  IF RatGt(compositeScore, STRONG_COMPOSITE_SCORE) /\ RatGt(confidence, STRONG_CONFIDENCE)
  THEN [decision |-> "BUY", outcome |-> "YES", tradeAmount |-> "increased"]
  ELSE IF RatGt(compositeScore, MIN_COMPOSITE_SCORE) /\ RatGt(confidence, MIN_CONFIDENCE)
  THEN [decision |-> "BUY", outcome |-> "YES", tradeAmount |-> "normal"]
  ELSE IF RatLt(compositeScore, RatNeg(STRONG_COMPOSITE_SCORE)) /\ RatGt(confidence, STRONG_CONFIDENCE)
  THEN [decision |-> "BUY", outcome |-> "NO", tradeAmount |-> "increased"]
  ELSE IF RatLt(compositeScore, RatNeg(MIN_COMPOSITE_SCORE)) /\ RatGt(confidence, MIN_CONFIDENCE)
  THEN [decision |-> "BUY", outcome |-> "NO", tradeAmount |-> "normal"]
  ELSE [decision |-> "HOLD", outcome |-> "null", tradeAmount |-> "normal"]

\* the low-liquidity downgrade with its two steps applied one after the other
Downgrade_cascade(d, orderFlow) ==
  IF orderFlow.status = "fulfilled" /\ RatLt(orderFlow.confidence, LOW_LIQUIDITY_CONFIDENCE)
  THEN IF d.decision = "BUY" THEN [d EXCEPT !.decision = "HOLD", !.outcome = "null",
                                            !.tradeAmount = "normal"]
       ELSE d
  ELSE d

\* the low-liquidity downgrade that skips a trade and keeps its outcome
Downgrade_keepOutcome(d, orderFlow) ==
  IF orderFlow.status = "fulfilled" /\ RatLt(orderFlow.confidence, LOW_LIQUIDITY_CONFIDENCE)
  THEN IF d.decision = "BUY" /\ d.tradeAmount = "increased"
       THEN [d EXCEPT !.tradeAmount = "normal"]
       ELSE IF d.decision = "BUY" /\ d.tradeAmount = "normal"
       THEN [d EXCEPT !.decision = "HOLD"]
       ELSE d
  ELSE d

\* the low-liquidity downgrade
Downgrade(d, orderFlow) ==
  IF orderFlow.status = "fulfilled" /\ RatLt(orderFlow.confidence, LOW_LIQUIDITY_CONFIDENCE)
  THEN IF d.decision = "BUY" /\ d.tradeAmount = "increased"
       THEN [d EXCEPT !.tradeAmount = "normal"]
       ELSE IF d.decision = "BUY" /\ d.tradeAmount = "normal"
       THEN [d EXCEPT !.decision = "HOLD", !.outcome = "null"]
       ELSE d
  ELSE d

\* value.confidence of a value that has no such field: undefined, which
\* arithmetic turns into NaN and every comparison takes as false
MissingConfidence == NaN

\* a promise fulfilled with no value (undefined): reading value.score throws
FulfilledUndefined ==
  [status |-> "fulfilled", score |-> Zero, error |-> FALSE, confidence |-> Zero,
   undefined |-> TRUE]

ValueMissing(result) ==
  result.status = "fulfilled" /\ "undefined" \in DOMAIN result

\* breakdown: the provider's value, or { score: 0, error } when it rejected
BreakdownOf(result) ==
  IF result.status = "fulfilled"
  THEN [score |-> result.score, confidence |-> result.confidence, error |-> result.error]
  ELSE [score |-> Zero, confidence |-> Zero, error |-> TRUE]

\* the liquidity confidence with a neutral default for an order flow that
\* rejected
OfConfidence_neutral(orderFlow) ==
  IF orderFlow.status = "fulfilled" THEN orderFlow.confidence ELSE Rat(5, 10)

\* orderFlow.status === 'fulfilled' ? orderFlow.value.confidence : 0
OfConfidence(orderFlow) ==
  IF orderFlow.status = "fulfilled" THEN orderFlow.confidence ELSE Zero

\* the body of analyzeMarket's try block when no statement throws
Analysis(technical, news, orderFlow, weights) ==
  LET taScore == ScoreOf(technical)
      newsScore == ScoreOf(news)
      ofScore == ScoreOf(orderFlow)
      ofConfidence == OfConfidence(orderFlow)
      adjustedWeights == AdjustedWeights(technical, news, orderFlow, weights)
      compositeScore == CompositeScore(taScore, newsScore, ofScore, adjustedWeights)
      confidence == Confidence(taScore, newsScore, ofScore, compositeScore, ofConfidence)
      d == Downgrade(Decide(compositeScore, confidence), orderFlow)
  IN  [thrown |-> FALSE,
       compositeScore |-> compositeScore,
       confidence |-> confidence,
       decision |-> d.decision,
       outcome |-> d.outcome,
       tradeAmount |-> d.tradeAmount,
       breakdown |-> [technical |-> BreakdownOf(technical),
                      news |-> BreakdownOf(news),
                      orderFlow |-> BreakdownOf(orderFlow)],
       weights |-> adjustedWeights,
       originalWeights |-> weights,
       error |-> FALSE]

\* the safe defaults the catch block returns
NeutralHold(weights) ==
  [thrown |-> FALSE,
   compositeScore |-> Zero,
   confidence |-> Zero,
   decision |-> "HOLD",
   outcome |-> "null",
   tradeAmount |-> "normal",
   breakdown |-> [technical |-> [score |-> Zero, confidence |-> Zero, error |-> TRUE],
                  news |-> [score |-> Zero, confidence |-> Zero, error |-> TRUE],
                  orderFlow |-> [score |-> Zero, confidence |-> Zero, error |-> TRUE]],
   weights |-> weights,
   error |-> TRUE]

\* analyzeMarket with the exception of its try block passed on to the caller
analyzeMarket_uncaught(technical, news, orderFlow, weights) ==
  IF ValueMissing(technical) \/ ValueMissing(news) \/ ValueMissing(orderFlow)
  THEN [thrown |-> TRUE]
  ELSE Analysis(technical, news, orderFlow, weights)

\* analyzeMarket: reading the score of a promise fulfilled without a value
\* throws a TypeError inside the try block, which the catch block turns into
\* the safe defaults
analyzeMarket(technical, news, orderFlow, weights) ==
  IF ValueMissing(technical) \/ ValueMissing(news) \/ ValueMissing(orderFlow)
  THEN NeutralHold(weights)
  ELSE Analysis(technical, news, orderFlow, weights)

(***************************************************************************)
(* Bounds and the environment's small domains                              *)
(***************************************************************************)
\* timer firings of the opportunity check, of the settlement and scans
MaxOppRuns == 2
MaxSettleRuns == 2
MaxScans == 2
\* the clock (in seconds) stops at MaxNow
MaxNow == 8
\* process crashes
MaxCrashes == 1

\* calls of fetchCoinGeckoSentiment in flight, CoinGecko requests, and the
\* half minutes the clock of the news module advances
MaxCallers == 2
MaxRequests == 2
MaxHalfMinutes == 2

OppIds == 1..MaxOppRuns
CallerIds == 1..MaxCallers
RequestIds == 1..MaxRequests
SettleIds == 1..MaxSettleRuns
ScanIds == 1..MaxScans

\* The exchange's markets of one 15-minute window: both end at second 7
\* (end_date, here in seconds); the slug identifies the market.
MarketEnd == 7
AllMarkets ==
  <<[market_id |-> "m1", slug |-> "m1", end_date |-> MarketEnd],
    [market_id |-> "m2", slug |-> "m2", end_date |-> MarketEnd]>>
MarketIds == {"m1", "m2"}
Outcomes == {"YES", "NO"}

\* The instants at which the clock is read: the last second of the trading
\* window (just before the 5-second buffer) and the seconds after the deadline.
MIN_TRADING_BUFFER_SECONDS == 5
InWindowInstant == MarketEnd - MIN_TRADING_BUFFER_SECONDS - 1
Instants == {InWindowInstant} \cup (MarketEnd + 1)..MaxNow

\* what the CLOB (or the Gamma fallback) may quote for a market
PriceQuotes ==
  {[yes_price |-> Rat(60, 100), no_price |-> Rat(40, 100)],
   [yes_price |-> Rat(90, 100), no_price |-> Rat(10, 100)]}

\* what the three providers may return for a market: a bullish and a bearish
\* agreement, and a weak signal
Signals ==
  {[technical |-> Fulfilled(Rat(6, 10), FALSE, Zero),
    news      |-> Fulfilled(Rat(4, 10), FALSE, Zero),
    orderFlow |-> Fulfilled(Rat(5, 10), FALSE, Rat(7, 10))],
   [technical |-> Fulfilled(Rat(-6, 10), FALSE, Zero),
    news      |-> Fulfilled(Rat(-4, 10), FALSE, Zero),
    orderFlow |-> Fulfilled(Rat(-5, 10), FALSE, One)],
   [technical |-> Fulfilled(Zero, TRUE, Zero),
    news      |-> Fulfilled(Rat(2, 10), FALSE, Zero),
    orderFlow |-> Fulfilled(Rat(1, 10), FALSE, Rat(7, 10))]}

\* tradingConfig of the server, as the environment sets it
\* (TRADE_WINDOW_SECONDS = 6, MAX_EXPOSURE 30 or 20)
EnvConfigs ==
  {[tradeAmount |-> Rat(10, 1), tradeWindowSeconds |-> 6,
    oddsMinPrice |-> Rat(30, 100), oddsMaxPrice |-> Rat(75, 100),
    maxRiskReward |-> Rat(5, 1), bankroll |-> Rat(100, 1),
    maxExposure |-> mx] : mx \in {Rat(30, 1), Rat(20, 1)}}

(***************************************************************************)
(* State                                                                   *)
(***************************************************************************)
VARIABLES
  procUp,          \* the server process is running
  crashes,         \* crashes so far
  now,             \* Date.now(), in seconds
  config,          \* engine.config
  isRunning,       \* engine.isRunning
  jobs,            \* the handles marketScanJob, tradeCheckJob, settlementJob
  scheduled,       \* node-cron: the number of live tasks of each kind
  markets,         \* engine.markets
  processedTrades, \* engine.processedTrades
  strategyWeights, \* engine.strategyWeights
  dbStatus,        \* bot_status: is_running, mode
  trades,          \* the trades table
  scan,            \* the invocations of scanMarkets
  opp,             \* the invocations of checkTradingOpportunities
  settle,          \* the invocations of settlePaperTrades
  executed,        \* history: executeTrade calls per (market, outcome) in this engine's lifetime
  settled,         \* history: settlements (updateTrade + tradeSettled) per trade id
  sizerIn, sizerOut,   \* a call of calculateKellyAmount and its result
  anIn, anOut,         \* a call of analyzeMarket and its result
  api,                 \* the last PUT /api/weights request and its response
  exIn, exOut,         \* a call of executeTrade and the events it emits
  liveTrader,          \* the LiveTrader singleton and the call of placeOrder at hand
  coinGeckoCache,      \* coinGeckoCache of the news module: data, timestamp, promise
  fetches,             \* the CoinGecko requests and the calls of fetchCoinGeckoSentiment
  dbThrows             \* the calls of the database that throw in executeTrade (none, as a rule)

engineVars ==
  <<procUp, crashes, now, config, isRunning, jobs, scheduled, markets,
    processedTrades, strategyWeights, dbStatus, trades, scan, opp, settle,
    executed, settled>>
moduleVars == <<liveTrader, coinGeckoCache, fetches, dbThrows>>
callVars == <<sizerIn, sizerOut, anIn, anOut, api, exIn, exOut, moduleVars>>
vars == <<engineVars, callVars>>

JobKinds == {"scan", "check", "settle"}

(***************************************************************************)
(* Construction                                                            *)
(***************************************************************************)
DEFAULT_MAX_EXPOSURE_RATIO == Rat(5, 10)

\* TradingEngine's constructor: maxExposure defaults to 50% of the bankroll
ConstructConfig(c) ==
  IF IsNull(c.maxExposure)
  THEN [c EXCEPT !.maxExposure =
          RatMul(OrDefault(c.bankroll, DEFAULT_BANKROLL), DEFAULT_MAX_EXPOSURE_RATIO)]
  ELSE c

ScanIdle == [pc |-> "idle", n |-> 0, visited |-> 0, snapshots |-> 0]
OppIdle ==
  [pc |-> "idle", list |-> <<>>, idx |-> 0, mode |-> "paper", window |-> 0,
   cands |-> <<>>, k |-> 0, maxExposure |-> Zero,
   remaining |-> Zero, alloc |-> Zero, log |-> <<>>]
SettleIdle == [pc |-> "idle", list |-> <<>>, idx |-> 0]

NoCall == [called |-> FALSE]

\* the in-memory state of a freshly constructed engine
Constructed(c) ==
  /\ config = ConstructConfig(c)
  /\ isRunning = FALSE
  /\ jobs = [k \in JobKinds |-> FALSE]
  /\ scheduled = [k \in JobKinds |-> 0]
  /\ markets = <<>>
  /\ processedTrades = {}
  /\ strategyWeights = DEFAULT_WEIGHTS

\* the bot_status row that initTables inserts
InitialStatus ==
  [is_running |-> FALSE, mode |-> "paper", total_trades |-> 0, total_pnl |-> Zero]

\* The server's startup, the database apart: the startup routine has reset
\* is_running and constructed the engine; nothing is in flight.
ServerStarted ==
  /\ procUp = TRUE
  /\ crashes = 0
  /\ now = InWindowInstant
  /\ \E c \in EnvConfigs : Constructed(c)
  /\ scan = [s \in ScanIds |-> ScanIdle]
  /\ opp = [i \in OppIds |-> OppIdle]
  /\ settle = [j \in SettleIds |-> SettleIdle]
  /\ executed = [key \in MarketIds \X Outcomes |-> 0]
  /\ settled = <<>>

DEFAULT_MAX_LIVE_TRADE_AMOUNT == Rat(50, 1)

NoOrder == [price |-> Zero, size |-> Zero, side |-> "none"]
NoResult == [kind |-> "none", success |-> FALSE, orderID |-> "", errorMsg |-> ""]

\* new LiveTrader() in a process with the environment env; `pc`, `params`,
\* `submitted` and `result` follow the call of placeOrder at hand
LiveTraderConstructed(env) ==
  [env |-> env, clobClient |-> FALSE, initialized |-> FALSE, initError |-> "null",
   firstTrade |-> TRUE,
   maxTradeAmount |-> OrDefault(env.MAX_LIVE_TRADE_AMOUNT, DEFAULT_MAX_LIVE_TRADE_AMOUNT),
   pc |-> "idle", params |-> NoOrder, submitted |-> FALSE, result |-> NoResult]

\* an environment with a wallet key and API credentials, and no cap of its own
PlainEnv == [MAX_LIVE_TRADE_AMOUNT |-> NaN, privateKey |-> "valid", credentials |-> "given"]

\* const coinGeckoCache = { data: null, timestamp: 0, promise: null }: `data`
\* is null or the body of a response (the coins it has an entry for),
\* `promise` is 0 for null or the request whose promise chain it holds
NoData == [present |-> FALSE, coins |-> {}]
CacheLoaded == [data |-> NoData, timestamp |-> 0, promise |-> 0]

CallerIdle == [pc |-> "idle", coinId |-> "none", awaits |-> 0, served |-> "none", result |-> "none"]
NoFetches ==
  [requests |-> [r \in RequestIds |-> [state |-> "unsent", body |-> NoData]],
   callers |-> [c \in CallerIds |-> CallerIdle]]

\* the modules as they are once loaded, and a database that does not fail
ModulesLoaded ==
  /\ liveTrader = LiveTraderConstructed(PlainEnv)
  /\ coinGeckoCache = CacheLoaded
  /\ fetches = NoFetches
  /\ dbThrows = {}

\* no call of the sizer or of the analyzer is under observation
NoCalls ==
  /\ sizerIn = NoCall /\ sizerOut = NoCall
  /\ anIn = NoCall /\ anOut = NoCall
  /\ api = NoCall
  /\ exIn = NoCall /\ exOut = NoCall
  /\ ModulesLoaded

\* the server's startup on an empty database
Init ==
  /\ ServerStarted
  /\ dbStatus = InitialStatus
  /\ trades = <<>>
  /\ NoCalls

(***************************************************************************)
(* The environment: the clock and the exchange                             *)
(***************************************************************************)
Tick ==
  /\ now < MaxNow
  /\ now' = CHOOSE t \in Instants : t > now /\ \A u \in Instants : u > now => t <= u
  /\ UNCHANGED <<procUp, crashes, config, isRunning, jobs, scheduled,
                 markets, processedTrades, strategyWeights, dbStatus, trades, scan,
                 opp, settle, executed, settled, callVars>>

(***************************************************************************)
(* TradingEngine.scanMarkets                                               *)
(***************************************************************************)
\* the slot of the next invocation
FreeSlot(inv, ids) == CHOOSE i \in ids : inv[i].pc = "idle" /\ \A j \in ids : inv[j].pc = "idle" => i <= j
HasFreeSlot(inv, ids) == \E i \in ids : inv[i].pc = "idle"

\* scanMarkets is called: it runs up to its first await
\* (get15MinuteCryptoMarkets)
ScanCalled(sc) == [sc EXCEPT ![FreeSlot(sc, ScanIds)] = [ScanIdle EXCEPT !.pc = "fetch"]]

\* get15MinuteCryptoMarkets: the markets not yet expired, never a market
\* twice (every lookup by slug succeeds)
Listings == {SelectSeq(AllMarkets, LAMBDA m : m.end_date > now)}

\* the cron task of the scan fires
ScanTimer ==
  /\ procUp /\ scheduled["scan"] > 0
  /\ HasFreeSlot(scan, ScanIds)
  /\ scan' = ScanCalled(scan)
  /\ UNCHANGED <<procUp, crashes, now, config, isRunning, jobs,
                 scheduled, markets, processedTrades, strategyWeights, dbStatus, trades,
                 opp, settle, executed, settled, callVars>>

\* The loop of scanMarkets over a list of n markets, when insertSnapshot
\* throws at market failAt (0: never): the markets before failAt get their
\* snapshot; the throw leaves the loop for the catch around the whole function.
ScanLoop(n, failAt) ==
  IF failAt = 0
  THEN [pc |-> "done", n |-> n, visited |-> n, snapshots |-> n]
  ELSE [pc |-> "failed", n |-> n, visited |-> failAt, snapshots |-> failAt - 1]

\* The market list arrives: this.markets is replaced, then the loop fetches
\* each market's prices and inserts its snapshot.  The awaits inside the loop
\* separate steps that touch only the snapshot table, which no other handler
\* reads: the loop is one step.
ScanFetched(s) ==
  /\ procUp /\ scan[s].pc = "fetch"
  /\ \E list \in Listings :
       /\ markets' = list
       /\ \E failAt \in 0..Len(list) :
            scan' = [scan EXCEPT ![s] = ScanLoop(Len(list), failAt)]
  /\ UNCHANGED <<procUp, crashes, now, config, isRunning, jobs,
                 scheduled, processedTrades, strategyWeights, dbStatus, trades,
                 opp, settle, executed, settled, callVars>>

(***************************************************************************)
(* TradingEngine.start and TradingEngine.stop                              *)
(***************************************************************************)
\* start without its guard on isRunning
start_unguarded ==
  /\ procUp
  /\ HasFreeSlot(scan, ScanIds)
  /\ isRunning' = TRUE
  /\ dbStatus' = [dbStatus EXCEPT !.is_running = TRUE]
  /\ jobs' = [k \in JobKinds |-> TRUE]
  /\ scheduled' = [k \in JobKinds |-> scheduled[k] + 1]
  /\ scan' = ScanCalled(scan)
  /\ UNCHANGED <<procUp, crashes, now, config, markets,
                 processedTrades, strategyWeights, trades, opp, settle, executed,
                 settled, callVars>>

start ==
  /\ procUp
  /\ IF isRunning
     THEN UNCHANGED <<isRunning, dbStatus, jobs, scheduled, scan>>
     ELSE /\ HasFreeSlot(scan, ScanIds)
          /\ isRunning' = TRUE
          /\ dbStatus' = [dbStatus EXCEPT !.is_running = TRUE]
          /\ jobs' = [k \in JobKinds |-> TRUE]
          /\ scheduled' = [k \in JobKinds |-> scheduled[k] + 1]
          /\ scan' = ScanCalled(scan)
  /\ UNCHANGED <<procUp, crashes, now, config, markets,
                 processedTrades, strategyWeights, trades, opp, settle, executed,
                 settled, callVars>>

stop ==
  /\ procUp
  /\ IF ~isRunning
     THEN UNCHANGED <<isRunning, dbStatus, jobs, scheduled>>
     ELSE /\ isRunning' = FALSE
          /\ dbStatus' = [dbStatus EXCEPT !.is_running = FALSE]
          /\ scheduled' = [k \in JobKinds |->
               IF jobs[k] THEN scheduled[k] - 1 ELSE scheduled[k]]
          /\ jobs' = [k \in JobKinds |-> FALSE]
  /\ UNCHANGED <<procUp, crashes, now, config, markets,
                 processedTrades, strategyWeights, trades, scan, opp, settle,
                 executed, settled, callVars>>

(***************************************************************************)
(* The process: a crash, and the server's startup                          *)
(***************************************************************************)
\* an invocation that dies with the process
Killed(inv, idle) == [i \in DOMAIN inv |-> IF inv[i].pc \in {"idle", "done", "failed"} THEN inv[i] ELSE [idle EXCEPT !.pc = "killed"]]

\* the process is killed without a graceful shutdown: the database keeps
\* what was written, everything in memory is lost
Crash ==
  /\ procUp /\ crashes < MaxCrashes
  /\ procUp' = FALSE
  /\ crashes' = crashes + 1
  /\ isRunning' = FALSE
  /\ jobs' = [k \in JobKinds |-> FALSE]
  /\ scheduled' = [k \in JobKinds |-> 0]
  /\ markets' = <<>>
  /\ processedTrades' = {}
  /\ strategyWeights' = DEFAULT_WEIGHTS
  /\ scan' = Killed(scan, ScanIdle)
  /\ opp' = Killed(opp, OppIdle)
  /\ settle' = Killed(settle, SettleIdle)
  /\ UNCHANGED <<now, config, dbStatus, trades, executed,
                 settled, callVars>>

\* the startup without the reset of is_running
Startup_noReset ==
  /\ ~procUp
  /\ procUp' = TRUE
  /\ executed' = [key \in MarketIds \X Outcomes |-> 0]
  /\ UNCHANGED <<crashes, now, config, isRunning, jobs, scheduled, markets,
                 processedTrades, strategyWeights, dbStatus, trades, scan, opp, settle,
                 settled, callVars>>

\* the server's async startup: is_running is reset, then the engine is
\* constructed from the same environment (a new engine lifetime begins)
Startup ==
  /\ ~procUp
  /\ procUp' = TRUE
  /\ dbStatus' = [dbStatus EXCEPT !.is_running = FALSE]
  /\ executed' = [key \in MarketIds \X Outcomes |-> 0]
  /\ UNCHANGED <<crashes, now, config, isRunning, jobs, scheduled, markets,
                 processedTrades, strategyWeights, trades, scan, opp, settle,
                 settled, callVars>>

(***************************************************************************)
(* PolymarketClient.isInTradingWindow                                      *)
(***************************************************************************)
DEFAULT_TRADE_WINDOW_SECONDS == 120

\* Math.max(0, Math.floor((end - now) / 1000)), end and now in seconds here
getTimeUntilExpiration(endDate, t) == IF endDate - t > 0 THEN endDate - t ELSE 0

\* the window test without the safety buffer
isInTradingWindow_noBuffer(endDate, windowSeconds, t) ==
  getTimeUntilExpiration(endDate, t) <= windowSeconds

isInTradingWindow(endDate, windowSeconds, t) ==
  LET timeLeft == getTimeUntilExpiration(endDate, t)
  IN  timeLeft > MIN_TRADING_BUFFER_SECONDS /\ timeLeft <= windowSeconds

(***************************************************************************)
(* TradingEngine.checkTradingOpportunities                                 *)
(***************************************************************************)
DEFAULT_ODDS_MIN_PRICE == Rat(30, 100)
DEFAULT_ODDS_MAX_PRICE == Rat(75, 100)
DEFAULT_MAX_RISK_REWARD == Rat(5, 1)
MIN_POTENTIAL_GAIN == Rat(1, 1000)
FALLBACK_MAX_EXPOSURE == Rat(50, 1)

TradeKey(market, outcome) == <<market.market_id, outcome>>

\* the index of the first market from `from` on that is in the trading
\* window at time t, 0 when there is none
NextInWindow(list, from, window, t) ==
  LET js == {j \in from..Len(list) : isInTradingWindow(list[j].end_date, window, t)}
  IN  IF js = {} THEN 0 ELSE CHOOSE j \in js : \A l \in js : j <= l

\* Phase 1 without the risk/reward guard
Collect_noRiskReward(market, analysis, prices, mode, cfg, processed) ==
  LET tradeKey == TradeKey(market, analysis.outcome)
      oddsMin == OrDefault(cfg.oddsMinPrice, DEFAULT_ODDS_MIN_PRICE)
      oddsMax == OrDefault(cfg.oddsMaxPrice, DEFAULT_ODDS_MAX_PRICE)
      tokenPrice == TokenPrice(analysis.outcome, prices)
      maxRiskReward == OrDefault(cfg.maxRiskReward, DEFAULT_MAX_RISK_REWARD)
      potentialGain == RatSub(One, tokenPrice)
      potentialLoss == tokenPrice
      riskRewardRatio == RatDiv(potentialLoss, potentialGain)
      kellyAmount == calculateKellyAmount(analysis, prices, cfg)
  IN  IF ~(analysis.decision = "BUY" /\ analysis.outcome # "null") THEN <<>>
      ELSE IF tradeKey \in processed THEN <<>>
      ELSE IF RatLt(tokenPrice, oddsMin) \/ RatGt(tokenPrice, oddsMax) THEN <<>>
      ELSE IF RatLe(potentialGain, MIN_POTENTIAL_GAIN) THEN <<>>
      ELSE IF IsNull(kellyAmount) \/ RatLe(kellyAmount, Zero) THEN <<>>
      ELSE <<[market |-> market, outcome |-> analysis.outcome, prices |-> prices,
              mode |-> mode, tradeKey |-> tradeKey, kellyAmount |-> kellyAmount,
              priority |-> RatMul(RatAbs(analysis.compositeScore), analysis.confidence)]>>

\* Phase 1 for one analyzed market: the candidate it yields, as a sequence of
\* zero or one candidates (HOLD, an already processed key, the odds range,
\* the risk/reward guard and the Kelly filter yield none)
Collect(market, analysis, prices, mode, cfg, processed) ==
  LET tradeKey == TradeKey(market, analysis.outcome)
      oddsMin == OrDefault(cfg.oddsMinPrice, DEFAULT_ODDS_MIN_PRICE)
      oddsMax == OrDefault(cfg.oddsMaxPrice, DEFAULT_ODDS_MAX_PRICE)
      tokenPrice == TokenPrice(analysis.outcome, prices)
      maxRiskReward == OrDefault(cfg.maxRiskReward, DEFAULT_MAX_RISK_REWARD)
      potentialGain == RatSub(One, tokenPrice)
      potentialLoss == tokenPrice
      riskRewardRatio == RatDiv(potentialLoss, potentialGain)
      kellyAmount == calculateKellyAmount(analysis, prices, cfg)
  IN  IF ~(analysis.decision = "BUY" /\ analysis.outcome # "null") THEN <<>>
      ELSE IF tradeKey \in processed THEN <<>>
      ELSE IF RatLt(tokenPrice, oddsMin) \/ RatGt(tokenPrice, oddsMax) THEN <<>>
      ELSE IF RatLe(potentialGain, MIN_POTENTIAL_GAIN) THEN <<>>
      ELSE IF RatGt(riskRewardRatio, maxRiskReward) THEN <<>>
      ELSE IF IsNull(kellyAmount) \/ RatLe(kellyAmount, Zero) THEN <<>>
      ELSE <<[market |-> market, outcome |-> analysis.outcome, prices |-> prices,
              mode |-> mode, tradeKey |-> tradeKey, kellyAmount |-> kellyAmount,
              priority |-> RatMul(RatAbs(analysis.compositeScore), analysis.confidence)]>>

\* Phase 1 for one analyzed market: the events it emits, the analysis and,
\* when a BUY for a pair not yet traded is rejected, a tradeSkipped with the
\* reason
Phase1Events(market, analysis, prices, cfg, processed) ==
  LET tradeKey == TradeKey(market, analysis.outcome)
      oddsMin == OrDefault(cfg.oddsMinPrice, DEFAULT_ODDS_MIN_PRICE)
      oddsMax == OrDefault(cfg.oddsMaxPrice, DEFAULT_ODDS_MAX_PRICE)
      tokenPrice == TokenPrice(analysis.outcome, prices)
      maxRiskReward == OrDefault(cfg.maxRiskReward, DEFAULT_MAX_RISK_REWARD)
      potentialGain == RatSub(One, tokenPrice)
      potentialLoss == tokenPrice
      riskRewardRatio == RatDiv(potentialLoss, potentialGain)
      kellyAmount == calculateKellyAmount(analysis, prices, cfg)
      tradeSkipped(reason) ==
        <<[name |-> "tradeSkipped", market_id |-> market.market_id, reason |-> reason]>>
  IN  <<[name |-> "analysis", market_id |-> market.market_id, reason |-> ""]>> \o
      (IF ~(analysis.decision = "BUY" /\ analysis.outcome # "null") THEN <<>>
       ELSE IF tradeKey \in processed THEN <<>>
       ELSE IF RatLt(tokenPrice, oddsMin) \/ RatGt(tokenPrice, oddsMax)
       THEN tradeSkipped("outside odds range")
       ELSE IF RatLe(potentialGain, MIN_POTENTIAL_GAIN)
       THEN tradeSkipped("too close to 1.0 (no potential gain)")
       ELSE IF RatGt(riskRewardRatio, maxRiskReward)
       THEN tradeSkipped("Risk/reward exceeds max")
       ELSE IF IsNull(kellyAmount) \/ RatLe(kellyAmount, Zero)
       THEN tradeSkipped("Kelly criterion shows no edge during budget allocation")
       ELSE <<>>)

RECURSIVE InsertByPriority(_, _)
\* c put into a list sorted by descending priority, after the candidates of
\* equal priority (Array.prototype.sort is stable)
InsertByPriority(sorted, c) ==
  IF sorted = <<>> THEN <<c>>
  ELSE IF RatGe(Head(sorted).priority, c.priority)
       THEN <<Head(sorted)>> \o InsertByPriority(Tail(sorted), c)
       ELSE <<c>> \o sorted

\* the candidates in the order of their collection, unsorted
SortByPriority_unsorted(cands) == cands

RECURSIVE SortByPriority(_)
\* candidates.sort((a, b) => b.priority - a.priority)
SortByPriority(cands) ==
  IF cands = <<>> THEN <<>>
  ELSE InsertByPriority(SortByPriority(SubSeq(cands, 1, Len(cands) - 1)),
                        cands[Len(cands)])

\* the whole Kelly amount, whatever budget remains
AllocatedAmount_noShrink(kellyAmount, remainingBudget) == kellyAmount

\* the amount allocated to a candidate: reduced to the remaining budget
AllocatedAmount(kellyAmount, remainingBudget) ==
  IF RatGt(kellyAmount, remainingBudget) THEN remainingBudget ELSE kellyAmount

RECURSIVE AllocScan_silent(_, _, _, _)
\* Phase 3 with the exhausted candidates passed over without an event
AllocScan_silent(cands, k, remaining, log) ==
  IF k > Len(cands) THEN [k |-> 0, log |-> log]
  ELSE IF RatLe(remaining, Zero)
  THEN AllocScan_silent(cands, k + 1, remaining, log)
  ELSE [k |-> k, log |-> log]

RECURSIVE AllocScan(_, _, _, _)
\* Phase 3 from candidate k on, up to the next executeTrade: the candidates
\* skipped as budget_exhausted are logged; the result names the candidate to
\* fund (k, 0 when the list is finished) and the log
AllocScan(cands, k, remaining, log) ==
  IF k > Len(cands) THEN [k |-> 0, log |-> log]
  ELSE IF RatLe(remaining, Zero)
  THEN AllocScan(cands, k + 1, remaining,
                 Append(log, [kind |-> "budget_exhausted", key |-> cands[k].tradeKey,
                              priority |-> cands[k].priority, amount |-> Zero,
                              before |-> remaining]))
  ELSE [k |-> k, log |-> log]

(***************************************************************************)
(* TradingEngine.executeTrade, called with an allocated amount             *)
(***************************************************************************)
RECURSIVE SumPnl(_)
SumPnl(rows) == IF rows = <<>> THEN Zero ELSE RatAdd(Head(rows).pnl, SumPnl(Tail(rows)))

\* Database.getStats(mode): COUNT(*) and SUM(pnl) of the mode's trades
getStats(table, mode) ==
  LET rows == SelectSeq(table, LAMBDA t : t.mode = mode)
  IN  [total_trades |-> Len(rows), total_pnl |-> SumPnl(rows)]

\* db.updateStatus({ total_trades, total_pnl }) with the mode's stats
StatsUpdated(status, table, mode) ==
  [status EXCEPT !.total_trades = getStats(table, mode).total_trades,
                 !.total_pnl = getStats(table, mode).total_pnl]

\* the trades table and the status row after executeTrade: the trade is
\* inserted (paper: filled, pnl 0; live: failed) and the mode's stats are
\* written to the status row; an invalid price returns before
executeTrade(table, status, market, side, outcome, prices, mode, allocatedAmount) ==
  LET price == TokenPrice(outcome, prices)
      tradeAmount == allocatedAmount
      shares == IF RatGt(price, Zero) THEN RatDiv(tradeAmount, price) ELSE Zero
      inserted ==
        Append(table,
          [id |-> Len(table) + 1, mode |-> mode, market_id |-> market.market_id,
           side |-> side, outcome |-> outcome, price |-> price,
           amount |-> tradeAmount, shares |-> shares,
           status |-> IF mode = "paper" THEN "filled" ELSE "failed",
           pnl |-> Zero,
           notes |-> [end_date |-> market.end_date, slug |-> market.slug]])
  IN  IF InvalidPrice(price) THEN [trades |-> table, status |-> status]
      ELSE [trades |-> inserted, status |-> StatsUpdated(status, inserted, mode)]

\* executeTrade with its try/catch and the events it emits, when the database
\* throws at throwsAt ("insertTrade", "getStats", or "none"): the catch emits
\* an error event and writes nothing more
executeTrade_caught(table, status, market, side, outcome, prices, mode, allocatedAmount, throwsAt) ==
  LET after == executeTrade(table, status, market, side, outcome, prices, mode,
                            allocatedAmount)
  IN  IF InvalidPrice(TokenPrice(outcome, prices))
      THEN [trades |-> table, status |-> status, events |-> <<"tradeSkipped">>]
      ELSE IF throwsAt = "insertTrade"
      THEN [trades |-> table, status |-> status, events |-> <<"error">>]
      ELSE IF throwsAt = "getStats"
      THEN [trades |-> after.trades, status |-> status, events |-> <<"error">>]
      ELSE [trades |-> after.trades, status |-> after.status,
            events |-> <<"newTrade", "stats", "recentTrades">>]

\* Phase 3 of invocation i from candidate k on with the budget `remaining`:
\* either the next candidate is funded (its key is marked as processed and
\* executeTrade runs up to the await of its result) or the invocation ends.
\* A call of the database in `dbThrows` may throw inside executeTrade, whose
\* catch swallows the error.
Allocate(i, loc, k, remaining) ==
  LET r == AllocScan(loc.cands, k, remaining, loc.log)
  IN  IF r.k = 0
      THEN /\ opp' = [opp EXCEPT ![i] = [OppIdle EXCEPT !.pc = "done",
                        !.maxExposure = loc.maxExposure, !.log = r.log]]
           /\ UNCHANGED <<processedTrades, trades, executed, dbStatus>>
      ELSE \E throwsAt \in {"none"} \cup dbThrows :
             LET c == loc.cands[r.k]
                 allocatedAmount == AllocatedAmount(c.kellyAmount, remaining)
                 after == executeTrade_caught(trades, dbStatus, c.market, "BUY",
                                              c.outcome, c.prices, c.mode,
                                              allocatedAmount, throwsAt)
             IN  /\ processedTrades' = processedTrades \cup {c.tradeKey}
                 /\ trades' = after.trades
                 /\ dbStatus' = after.status
                 /\ executed' = [executed EXCEPT ![c.tradeKey] = @ + 1]
                 /\ opp' = [opp EXCEPT ![i] = [loc EXCEPT !.pc = "exec", !.k = r.k,
                              !.remaining = remaining, !.alloc = allocatedAmount,
                              !.log = Append(r.log,
                                 [kind |-> "funded", key |-> c.tradeKey,
                                  priority |-> c.priority, amount |-> allocatedAmount,
                                  before |-> remaining])]]

\* Phase 1 of invocation i goes on with the markets from `from` on: up to the
\* await for the next market in the window or, past the last, through the
\* sort (Phase 2) into the allocation (Phase 3)
Advance(i, loc, from) ==
  LET j == NextInWindow(loc.list, from, loc.window, now)
  IN  IF j # 0
      THEN /\ opp' = [opp EXCEPT ![i] = [loc EXCEPT !.pc = "analyze", !.idx = j]]
           /\ UNCHANGED <<processedTrades, trades, executed, dbStatus>>
      ELSE LET maxExposure == OrDefault(config.maxExposure, FALLBACK_MAX_EXPOSURE)
           IN  Allocate(i, [loc EXCEPT !.cands = SortByPriority(loc.cands),
                                       !.maxExposure = maxExposure],
                        1, maxExposure)

\* the market at hand when the loop indexes this.markets afresh at every turn
\* (past the end of a shorter list it keeps the element it had)
MarketAt_live(loc) == IF loc.idx <= Len(markets) THEN markets[loc.idx] ELSE loc.list[loc.idx]

\* The market at hand of `for (const market of this.markets)`: the iterator
\* holds the array that this.markets referred to when the loop began.
MarketAt(loc) == loc.list[loc.idx]

\* the cron task of the opportunity check fires
OppTimer ==
  /\ procUp /\ scheduled["check"] > 0
  /\ HasFreeSlot(opp, OppIds)
  /\ IF ~isRunning
     THEN UNCHANGED <<opp, processedTrades, trades, executed, dbStatus>>
     ELSE Advance(FreeSlot(opp, OppIds),
                  [OppIdle EXCEPT !.mode = dbStatus.mode,
                                  !.window = IF config.tradeWindowSeconds # 0
                                             THEN config.tradeWindowSeconds
                                             ELSE DEFAULT_TRADE_WINDOW_SECONDS,
                                  !.list = markets],
                  1)
  /\ UNCHANGED <<procUp, crashes, now, config, isRunning, jobs, scheduled,
                 markets, strategyWeights, scan, settle, settled, callVars>>

\* The prices and the analysis of the market at hand arrive (getMarketPrices
\* and analyzeMarket are awaited one after the other, and nothing shared is
\* written in between); the market is collected or skipped and the loop goes
\* on.
OppAnalyzed(i) ==
  /\ procUp /\ opp[i].pc = "analyze"
  /\ \E prices \in PriceQuotes, sig \in Signals :
       LET loc == opp[i]
           market == MarketAt(loc)
           analysis == analyzeMarket(sig.technical, sig.news, sig.orderFlow,
                                     strategyWeights)
           cand == Collect(market, analysis, prices, loc.mode, config,
                           processedTrades)
       IN  Advance(i, [loc EXCEPT !.cands = @ \o cand], loc.idx + 1)
  /\ UNCHANGED <<procUp, crashes, now, config, isRunning, jobs, scheduled,
                 markets, strategyWeights, scan, settle, settled, callVars>>

\* executeTrade's promise resolves and Phase 3 goes on with the budget as it
\* was
OppExecuted_noDeduct(i) ==
  /\ procUp /\ opp[i].pc = "exec"
  /\ Allocate(i, opp[i], opp[i].k + 1, opp[i].remaining)
  /\ UNCHANGED <<procUp, crashes, now, config, isRunning, jobs, scheduled,
                 markets, strategyWeights, scan, settle, settled, callVars>>

\* executeTrade's promise resolves: the amount is deducted from the budget
\* and Phase 3 goes on
OppExecuted(i) ==
  /\ procUp /\ opp[i].pc = "exec"
  /\ Allocate(i, opp[i], opp[i].k + 1, RatSub(opp[i].remaining, opp[i].alloc))
  /\ UNCHANGED <<procUp, crashes, now, config, isRunning, jobs, scheduled,
                 markets, strategyWeights, scan, settle, settled, callVars>>

(***************************************************************************)
(* TradingEngine.settlePaperTrades                                         *)
(***************************************************************************)
RESOLUTION_PRICE_THRESHOLD == Rat(95, 100)

\* the side each market resolves to
ResolvedSide(slug) == IF slug = "m1" THEN "NO" ELSE "YES"

\* What getMarketBySlug may return for a market after its deadline: null (the
\* request failed), the market still open, the market resolved with settled
\* outcome prices, or closed with a winning side.
MarketData(slug) ==
  {[found |-> FALSE, outcomePrices |-> <<>>, closed |-> FALSE, winning_side |-> "none"],
   [found |-> TRUE, outcomePrices |-> <<Rat(6, 10), Rat(4, 10)>>, closed |-> FALSE,
    winning_side |-> "none"],
   [found |-> TRUE,
    outcomePrices |-> IF ResolvedSide(slug) = "YES" THEN <<One, Zero>> ELSE <<Zero, One>>,
    closed |-> TRUE, winning_side |-> "none"],
   [found |-> TRUE, outcomePrices |-> <<>>, closed |-> TRUE,
    winning_side |-> IF ResolvedSide(slug) = "YES" THEN "Up" ELSE "Down"]}

\* getMarketWinner: the settled outcome prices first, then the winning side
\* of a closed market; "null" when the market is not yet resolved
getMarketWinner(marketData) ==
  IF ~marketData.found THEN "null"
  ELSE IF /\ Len(marketData.outcomePrices) >= 2
          /\ RatGe(marketData.outcomePrices[1], RESOLUTION_PRICE_THRESHOLD)
  THEN "YES"
  ELSE IF /\ Len(marketData.outcomePrices) >= 2
          /\ RatGe(marketData.outcomePrices[2], RESOLUTION_PRICE_THRESHOLD)
  THEN "NO"
  ELSE IF marketData.closed /\ marketData.winning_side \in {"Up", "YES"} THEN "YES"
  ELSE IF marketData.closed /\ marketData.winning_side \in {"Down", "NO"} THEN "NO"
  ELSE "null"

\* the PnL of a settled trade, the stake not deducted from a win
calculatedPnl_stakeKept(trade, winner) ==
  IF trade.outcome = winner THEN trade.shares ELSE RatNeg(trade.amount)

\* the PnL of a settled trade, a loss not booked
calculatedPnl_lossIgnored(trade, winner) ==
  IF trade.outcome = winner THEN RatSub(trade.shares, trade.amount) ELSE Zero

\* the PnL of a settled trade: shares - amount on a win, -amount on a loss
calculatedPnl(trade, winner) ==
  IF trade.outcome = winner
  THEN RatSub(trade.shares, trade.amount)
  ELSE RatNeg(trade.amount)

\* an UPDATE without its WHERE clause: the PnL is written to every row
updateTrade_everyRow(table, id, pnl) ==
  [r \in DOMAIN table |-> [table[r] EXCEPT !.pnl = pnl]]

\* Database.updateTrade(id, { pnl })
updateTrade(table, id, pnl) ==
  [r \in DOMAIN table |->
     IF table[r].id = id THEN [table[r] EXCEPT !.pnl = pnl] ELSE table[r]]

\* the paper trades still carrying a zero PnL
getUnsettledPaperTrades(table) ==
  SelectSeq(table, LAMBDA t : t.mode = "paper" /\ t.pnl = Zero)

\* the loop without the test of the deadline
SettleAdvance_noDeadline(j, list, from) ==
  IF from > Len(list)
  THEN [settle EXCEPT ![j] = [SettleIdle EXCEPT !.pc = "done"]]
  ELSE [settle EXCEPT ![j] = [pc |-> "resolve", list |-> list, idx |-> from]]

\* The loop of invocation j goes on with the trades from `from` on: up to the
\* await of the lookup for the next trade whose deadline has passed, or to
\* the end of the list.
SettleAdvance(j, list, from) ==
  LET ks == {k \in from..Len(list) : now > list[k].notes.end_date}
  IN  IF ks = {}
      THEN [settle EXCEPT ![j] = [SettleIdle EXCEPT !.pc = "done"]]
      ELSE [settle EXCEPT ![j] =
              [pc |-> "resolve", list |-> list,
               idx |-> CHOOSE k \in ks : \A l \in ks : k <= l]]

\* the cron task of the settlement fires
SettleTimer ==
  /\ procUp /\ scheduled["settle"] > 0
  /\ HasFreeSlot(settle, SettleIds)
  /\ settle' = IF ~isRunning THEN settle
               ELSE SettleAdvance(FreeSlot(settle, SettleIds),
                                  getUnsettledPaperTrades(trades), 1)
  /\ UNCHANGED <<procUp, crashes, now, config, isRunning, jobs, scheduled,
                 markets, processedTrades, strategyWeights, dbStatus, trades,
                 scan, opp, executed, settled, callVars>>

\* the lookup returns, and a trade whose market is unresolved is written off
SettleResolved_writeOff(j) ==
  /\ procUp /\ settle[j].pc = "resolve"
  /\ LET trade == settle[j].list[settle[j].idx]
     IN  \E marketData \in MarketData(trade.notes.slug) :
           LET winner == getMarketWinner(marketData)
               updated == updateTrade(trades, trade.id, calculatedPnl(trade, winner))
           IN  /\ trades' = updated
               /\ IF winner = "null"
                  THEN UNCHANGED <<dbStatus, settled>>
                  ELSE /\ dbStatus' = StatsUpdated(dbStatus, updated, "paper")
                       /\ settled' = Append(settled, trade.id)
  /\ settle' = SettleAdvance(j, settle[j].list, settle[j].idx + 1)
  /\ UNCHANGED <<procUp, crashes, now, config, isRunning, jobs, scheduled,
                 markets, processedTrades, strategyWeights, scan, opp,
                 executed, callVars>>

\* The lookup of the trade at hand returns: an unresolved market leaves the
\* trade for a later cycle; a resolved one has the PnL written to the trade
\* and the paper stats to the status row, and tradeSettled is emitted.  The
\* loop goes on.
SettleResolved(j) ==
  /\ procUp /\ settle[j].pc = "resolve"
  /\ LET trade == settle[j].list[settle[j].idx]
     IN  \E marketData \in MarketData(trade.notes.slug) :
           LET winner == getMarketWinner(marketData)
               updated == updateTrade(trades, trade.id, calculatedPnl(trade, winner))
           IN  IF winner = "null"
               THEN UNCHANGED <<trades, dbStatus, settled>>
               ELSE /\ trades' = updated
                    /\ dbStatus' = StatsUpdated(dbStatus, updated, "paper")
                    /\ settled' = Append(settled, trade.id)
  /\ settle' = SettleAdvance(j, settle[j].list, settle[j].idx + 1)
  /\ UNCHANGED <<procUp, crashes, now, config, isRunning, jobs, scheduled,
                 markets, processedTrades, strategyWeights, scan, opp,
                 executed, callVars>>

\* settlePaperTrades returns: the invocation is over
SettleReturn(j) ==
  /\ procUp /\ settle[j].pc = "done"
  /\ settle' = [settle EXCEPT ![j] = SettleIdle]
  /\ UNCHANGED <<procUp, crashes, now, config, isRunning, jobs, scheduled,
                 markets, processedTrades, strategyWeights, dbStatus, trades,
                 scan, opp, executed, settled, callVars>>

\* a lookup for trade id is awaited: a report of its resolution is possible
LookupPending(id) ==
  \E j \in SettleIds :
    settle[j].pc = "resolve" /\ settle[j].list[settle[j].idx].id = id

\* the lookup of invocation j reports the market of trade id resolved
ResolutionReported(j, id) ==
  /\ settle[j].pc = "resolve"
  /\ settle[j].list[settle[j].idx].id = id
  /\ SettleResolved(j)
  /\ Len(settled') > Len(settled)

\* Databases left by an earlier run of the server: a paper trade on each
\* market, or a paper trade and a live one, or a paper trade on the first
\* market and one on a market whose deadline is the clock's last second
PastDatabases ==
  LET quote == [yes_price |-> Rat(60, 100), no_price |-> Rat(40, 100)]
      first == executeTrade(<<>>, InitialStatus, AllMarkets[1], "BUY", "NO",
                            quote, "paper", Rat(20, 1))
  IN  {executeTrade(first.trades, first.status, AllMarkets[2], "BUY", "NO",
                    quote, mode, Rat(20, 1)) : mode \in {"paper", "live"}}
      \cup {executeTrade(first.trades, first.status,
                         [AllMarkets[2] EXCEPT !.end_date = MaxNow], "BUY", "NO",
                         quote, "paper", Rat(20, 1))}

\* the server's startup on a database that holds trades of an earlier run
InitSettle ==
  /\ ServerStarted
  /\ \E db \in PastDatabases : trades = db.trades /\ dbStatus = db.status
  /\ NoCalls

Next ==
  \/ Tick
  \/ start
  \/ stop
  \/ ScanTimer
  \/ \E s \in ScanIds : ScanFetched(s)
  \/ OppTimer
  \/ \E i \in OppIds : OppAnalyzed(i)
  \/ \E i \in OppIds : OppExecuted(i)

Spec == Init /\ [][Next]_vars

\* the engine's life cycle in a process that may crash and be started again
NextProcess ==
  \/ Tick
  \/ start
  \/ stop
  \/ ScanTimer
  \/ \E s \in ScanIds : ScanFetched(s)
  \/ Crash
  \/ Startup

SpecProcess == Init /\ [][NextProcess]_vars

\* the opportunity cycles of an engine that is started once and keeps running
NextCycle ==
  \/ start
  \/ \E s \in ScanIds : ScanFetched(s)
  \/ OppTimer
  \/ \E i \in OppIds : OppAnalyzed(i)
  \/ \E i \in OppIds : OppExecuted(i)

SpecCycle == Init /\ [][NextCycle]_vars

\* the settlement cycle of an engine started on an earlier run's database
NextSettle ==
  \/ Tick
  \/ start
  \/ stop
  \/ \E s \in ScanIds : ScanFetched(s)
  \/ SettleTimer
  \/ \E j \in SettleIds : SettleResolved(j)

SpecSettle == InitSettle /\ [][NextSettle]_vars

\* Opportunity cycles at any second of the clock, of an engine that was
\* started and has scanned two markets with different deadlines.
LaterMarketEnd == MarketEnd + 2
WindowMarkets ==
  <<[market_id |-> "m1", slug |-> "m1", end_date |-> MarketEnd],
    [market_id |-> "m2", slug |-> "m2", end_date |-> LaterMarketEnd]>>

\* TRADE_WINDOW_SECONDS: 3 (shorter than the buffer), 6 or 120
WindowConfigs ==
  {[tradeAmount |-> Rat(10, 1), tradeWindowSeconds |-> w,
    oddsMinPrice |-> Rat(30, 100), oddsMaxPrice |-> Rat(75, 100),
    maxRiskReward |-> Rat(5, 1), bankroll |-> Rat(100, 1),
    maxExposure |-> Rat(30, 1)] : w \in {3, 6, DEFAULT_TRADE_WINDOW_SECONDS}}

InitWindow ==
  /\ procUp = TRUE
  /\ crashes = 0
  /\ now \in 0..MaxNow
  /\ \E c \in WindowConfigs : config = ConstructConfig(c)
  /\ isRunning = TRUE
  /\ jobs = [k \in JobKinds |-> TRUE]
  /\ scheduled = [k \in JobKinds |-> 1]
  /\ markets = WindowMarkets
  /\ processedTrades = {}
  /\ strategyWeights = DEFAULT_WEIGHTS
  /\ scan = [s \in ScanIds |-> IF s = 1 THEN ScanLoop(Len(WindowMarkets), 0) ELSE ScanIdle]
  /\ opp = [i \in OppIds |-> OppIdle]
  /\ settle = [j \in SettleIds |-> SettleIdle]
  /\ executed = [key \in MarketIds \X Outcomes |-> 0]
  /\ settled = <<>>
  /\ dbStatus = [InitialStatus EXCEPT !.is_running = TRUE]
  /\ trades = <<>>
  /\ NoCalls

NextWindow ==
  \/ Tick
  \/ OppTimer
  \/ \E i \in OppIds : OppAnalyzed(i)
  \/ \E i \in OppIds : OppExecuted(i)

SpecWindow == InitWindow /\ [][NextWindow]_vars

\* Opportunity cycles of a running engine that has scanned two markets, at an
\* instant inside their trading window, under configurations whose odds band
\* (up to 0.75 and 0.97) and risk/reward limit (1, 5 and 25) reject different
\* quotes, and a ceiling that one candidate exhausts. Each check ends before
\* the cron task fires again. What a step awaited (the quote and the
\* analysis) is kept in `anIn`, the events Phase 1 emitted in `exOut`.
GuardConfigs ==
  {[tradeAmount |-> Rat(10, 1), tradeWindowSeconds |-> 6,
    oddsMinPrice |-> Rat(30, 100), oddsMaxPrice |-> c[1],
    maxRiskReward |-> c[2], bankroll |-> Rat(100, 1),
    maxExposure |-> Rat(20, 1)] :
     c \in {<<Rat(75, 100), Rat(5, 1)>>, <<Rat(75, 100), One>>,
            <<Rat(97, 100), Rat(5, 1)>>, <<Rat(97, 100), Rat(25, 1)>>}}

GuardQuotes ==
  PriceQuotes \cup {[yes_price |-> Rat(96, 100), no_price |-> Rat(4, 100)]}

\* the prices and the analysis of the market at hand arrive: OppAnalyzed with
\* what was awaited and what was emitted kept
OppAnalyzedTraced(i) ==
  /\ procUp /\ opp[i].pc = "analyze"
  /\ \E prices \in GuardQuotes, sig \in Signals :
       LET loc == opp[i]
           market == MarketAt(loc)
           analysis == analyzeMarket(sig.technical, sig.news, sig.orderFlow,
                                     strategyWeights)
           cand == Collect(market, analysis, prices, loc.mode, config,
                           processedTrades)
       IN  /\ Advance(i, [loc EXCEPT !.cands = @ \o cand], loc.idx + 1)
           /\ anIn' = [called |-> TRUE, market |-> market, prices |-> prices,
                       analysis |-> analysis]
           /\ exOut' = [called |-> TRUE,
                        events |-> Phase1Events(market, analysis, prices, config,
                                                processedTrades)]
  /\ UNCHANGED <<procUp, crashes, now, config, isRunning, jobs, scheduled,
                 markets, strategyWeights, scan, settle, settled,
                 sizerIn, sizerOut, anOut, api, exIn, moduleVars>>

InitGuards ==
  /\ procUp = TRUE
  /\ crashes = 0
  /\ now = InWindowInstant
  /\ \E c \in GuardConfigs : config = ConstructConfig(c)
  /\ isRunning = TRUE
  /\ jobs = [k \in JobKinds |-> TRUE]
  /\ scheduled = [k \in JobKinds |-> 1]
  /\ markets = AllMarkets
  /\ processedTrades = {}
  /\ strategyWeights = DEFAULT_WEIGHTS
  /\ scan = [s \in ScanIds |-> IF s = 1 THEN ScanLoop(Len(AllMarkets), 0) ELSE ScanIdle]
  /\ opp = [i \in OppIds |-> OppIdle]
  /\ settle = [j \in SettleIds |-> SettleIdle]
  /\ executed = [key \in MarketIds \X Outcomes |-> 0]
  /\ settled = <<>>
  /\ dbStatus = [InitialStatus EXCEPT !.is_running = TRUE]
  /\ trades = <<>>
  /\ NoCalls

\* the cron task fires, no earlier invocation being in flight
OppTimerInTurn ==
  /\ \A i \in OppIds : opp[i].pc \in {"idle", "done"}
  /\ OppTimer

NextGuards ==
  \/ OppTimerInTurn
  \/ \E i \in OppIds : OppAnalyzedTraced(i)
  \/ \E i \in OppIds : OppExecuted(i)

SpecGuards == InitGuards /\ [][NextGuards]_vars

\* Scans completing while an opportunity cycle is in flight. A lookup by slug
\* that fails leaves its market out of the list (getMarketBySlug returns null),
\* so that a scan may bring any sublist of the unexpired markets.
PartialListings ==
  {SelectSeq(AllMarkets, LAMBDA m : m.end_date > now /\ m.market_id \in found) : found \in SUBSET MarketIds}

\* ScanFetched with lookups that may fail (and snapshots that are all stored)
ScanFetchedPartial(s) ==
  /\ procUp /\ scan[s].pc = "fetch"
  /\ \E list \in PartialListings :
       /\ markets' = list
       /\ scan' = [scan EXCEPT ![s] = ScanLoop(Len(list), 0)]
  /\ UNCHANGED <<procUp, crashes, now, config, isRunning, jobs,
                 scheduled, processedTrades, strategyWeights, dbStatus, trades,
                 opp, settle, executed, settled, callVars>>

\* OppAnalyzed with the market that was analyzed kept in `anIn`
OppAnalyzedAt(i) ==
  /\ procUp /\ opp[i].pc = "analyze"
  /\ \E prices \in PriceQuotes, sig \in Signals :
       LET loc == opp[i]
           market == MarketAt(loc)
           analysis == analyzeMarket(sig.technical, sig.news, sig.orderFlow,
                                     strategyWeights)
           cand == Collect(market, analysis, prices, loc.mode, config,
                           processedTrades)
       IN  /\ Advance(i, [loc EXCEPT !.cands = @ \o cand], loc.idx + 1)
           /\ anIn' = [called |-> TRUE, market |-> market]
  /\ UNCHANGED <<procUp, crashes, now, config, isRunning, jobs, scheduled,
                 markets, strategyWeights, scan, settle, settled,
                 sizerIn, sizerOut, anOut, api, exIn, exOut, moduleVars>>

\* a running engine that has scanned both markets, under the default limits
InitSwap ==
  /\ InitGuards
  /\ config.oddsMaxPrice = Rat(75, 100) /\ config.maxRiskReward = Rat(5, 1)

NextSwap ==
  \/ ScanTimer
  \/ \E s \in ScanIds : ScanFetchedPartial(s)
  \/ OppTimerInTurn
  \/ \E i \in OppIds : OppAnalyzedAt(i)
  \/ \E i \in OppIds : OppExecuted(i)

SpecSwap == InitSwap /\ [][NextSwap]_vars

\* Opportunity cycles of a running engine that has scanned two markets, one
\* check after the other, under a ceiling the environment sets
\* (MAX_EXPOSURE = 30 or 20.5).
FloorConfigs ==
  {[tradeAmount |-> Rat(10, 1), tradeWindowSeconds |-> 6,
    oddsMinPrice |-> Rat(30, 100), oddsMaxPrice |-> Rat(75, 100),
    maxRiskReward |-> Rat(5, 1), bankroll |-> Rat(100, 1), maxExposure |-> mx] :
     mx \in {Rat(30, 1), Rat(41, 2)}}

InitFloor ==
  /\ procUp = TRUE
  /\ crashes = 0
  /\ now = InWindowInstant
  /\ \E c \in FloorConfigs : config = ConstructConfig(c)
  /\ isRunning = TRUE
  /\ jobs = [k \in JobKinds |-> TRUE]
  /\ scheduled = [k \in JobKinds |-> 1]
  /\ markets = AllMarkets
  /\ processedTrades = {}
  /\ strategyWeights = DEFAULT_WEIGHTS
  /\ scan = [s \in ScanIds |-> IF s = 1 THEN ScanLoop(Len(AllMarkets), 0) ELSE ScanIdle]
  /\ opp = [i \in OppIds |-> OppIdle]
  /\ settle = [j \in SettleIds |-> SettleIdle]
  /\ executed = [key \in MarketIds \X Outcomes |-> 0]
  /\ settled = <<>>
  /\ dbStatus = [InitialStatus EXCEPT !.is_running = TRUE]
  /\ trades = <<>>
  /\ NoCalls

NextFloor ==
  \/ OppTimerInTurn
  \/ \E i \in OppIds : OppAnalyzed(i)
  \/ \E i \in OppIds : OppExecuted(i)

SpecFloor == InitFloor /\ [][NextFloor]_vars

\* Opportunity cycles of a running engine, one check after the other, on a
\* database whose insertTrade may throw (a locked or full database file).
InitFaulty ==
  /\ procUp = TRUE
  /\ crashes = 0
  /\ now = InWindowInstant
  /\ \E c \in EnvConfigs : config = ConstructConfig(c)
  /\ isRunning = TRUE
  /\ jobs = [k \in JobKinds |-> TRUE]
  /\ scheduled = [k \in JobKinds |-> 1]
  /\ markets = AllMarkets
  /\ processedTrades = {}
  /\ strategyWeights = DEFAULT_WEIGHTS
  /\ scan = [s \in ScanIds |-> IF s = 1 THEN ScanLoop(Len(AllMarkets), 0) ELSE ScanIdle]
  /\ opp = [i \in OppIds |-> OppIdle]
  /\ settle = [j \in SettleIds |-> SettleIdle]
  /\ executed = [key \in MarketIds \X Outcomes |-> 0]
  /\ settled = <<>>
  /\ dbStatus = [InitialStatus EXCEPT !.is_running = TRUE]
  /\ trades = <<>>
  /\ sizerIn = NoCall /\ sizerOut = NoCall
  /\ anIn = NoCall /\ anOut = NoCall
  /\ api = NoCall
  /\ exIn = NoCall /\ exOut = NoCall
  /\ liveTrader = LiveTraderConstructed(PlainEnv)
  /\ coinGeckoCache = CacheLoaded
  /\ fetches = NoFetches
  /\ dbThrows = {"insertTrade"}

SpecFaulty == InitFaulty /\ [][NextFloor]_vars

(***************************************************************************)
(* LiveTrader.initialize and LiveTrader.placeOrder                         *)
(***************************************************************************)
\* what the process environment may hold: MAX_LIVE_TRADE_AMOUNT (unset or
\* 30), the wallet's private key (unset, not a key, or a key) and the API
\* credentials (given, or to be derived from the wallet)
LiveEnvs ==
  {[MAX_LIVE_TRADE_AMOUNT |-> m, privateKey |-> k, credentials |-> c] :
     m \in {NaN, Rat(30, 1)}, k \in {"unset", "invalid", "valid"},
     c \in {"given", "derive"}}

\* the orders placeOrder is called with: 5, 6, 50, 60 and 72 dollars
OrderParams ==
  {[price |-> p, size |-> z, side |-> d] :
     p \in {Rat(5, 10), Rat(6, 10)}, z \in {Rat(10, 1), Rat(100, 1), Rat(120, 1)},
     d \in {"BUY", "SELL"}}

\* what createAndPostOrder may do: resolve with an order accepted, with an
\* order refused (with or without a message), with nothing, or reject
ClobResponses ==
  {[kind |-> "response", success |-> TRUE, orderID |-> "0xabc", errorMsg |-> ""],
   [kind |-> "response", success |-> FALSE, orderID |-> "", errorMsg |-> "not enough balance"],
   [kind |-> "response", success |-> FALSE, orderID |-> "", errorMsg |-> ""],
   [kind |-> "null", success |-> FALSE, orderID |-> "", errorMsg |-> ""],
   [kind |-> "throws", success |-> FALSE, orderID |-> "", errorMsg |-> "Request failed"]}

Failure(msg) == [kind |-> "returned", success |-> FALSE, orderID |-> "", errorMsg |-> msg]
Success(id) == [kind |-> "returned", success |-> TRUE, orderID |-> id, errorMsg |-> ""]

\* placeOrder without its cap
ExceedsCap_off(dollarAmount, maxTradeAmount) == FALSE

\* dollarAmount > this.maxTradeAmount
ExceedsCap(dollarAmount, maxTradeAmount) == RatGt(dollarAmount, maxTradeAmount)

\* placeOrder once initialize has returned true: the side is checked and
\* createAndPostOrder is called
Ready(lt) ==
  IF lt.params.side # "BUY"
  THEN [lt EXCEPT !.pc = "returned", !.result = Failure("Unsupported order side")]
  ELSE [lt EXCEPT !.pc = "post", !.submitted = TRUE]

\* initialize has returned false
NotReady(lt, message) ==
  [lt EXCEPT !.initError = message, !.pc = "returned",
             !.result = Failure("LiveTrader initialization failed")]

\* the client is created with the credentials
Initialized(lt) == [lt EXCEPT !.clobClient = TRUE, !.initialized = TRUE]

\* placeOrder is called (one call at a time) and runs up to its return or to
\* the first promise it awaits that is not settled yet
placeOrder(params) ==
  /\ liveTrader.pc \in {"idle", "returned"}
  /\ LET lt == [liveTrader EXCEPT !.params = params, !.submitted = FALSE,
                                  !.result = NoResult]
         dollarAmount == RatMul(params.size, params.price)
         warned == [lt EXCEPT !.firstTrade = FALSE]
     IN  liveTrader' =
           IF ExceedsCap(dollarAmount, lt.maxTradeAmount)
           THEN [lt EXCEPT !.pc = "returned",
                           !.result = Failure("Trade amount exceeds MAX_LIVE_TRADE_AMOUNT")]
           ELSE IF warned.initialized THEN Ready(warned)
           ELSE IF warned.env.privateKey = "unset"
           THEN NotReady(warned, "Private key not set")
           ELSE IF warned.env.privateKey = "invalid"
           THEN NotReady(warned, "invalid private key")
           ELSE IF warned.env.credentials = "given" THEN Ready(Initialized(warned))
           ELSE [warned EXCEPT !.pc = "initialize"]
  /\ UNCHANGED <<engineVars, sizerIn, sizerOut, anIn, anOut, api, exIn, exOut,
                 coinGeckoCache, fetches, dbThrows>>

\* createOrDeriveApiKey settles
DeriveSettled ==
  /\ liveTrader.pc = "initialize"
  /\ \E derived \in BOOLEAN :
       liveTrader' = IF derived THEN Ready(Initialized(liveTrader))
                     ELSE NotReady(liveTrader, "Could not create api key")
  /\ UNCHANGED <<engineVars, sizerIn, sizerOut, anIn, anOut, api, exIn, exOut,
                 coinGeckoCache, fetches, dbThrows>>

\* what placeOrder returns for the response of createAndPostOrder
PostResult(response) ==
  IF response.kind = "throws" THEN Failure(response.errorMsg)
  ELSE IF response.kind = "response" /\ response.success THEN Success(response.orderID)
  ELSE Failure(IF response.kind = "response" /\ response.errorMsg # ""
               THEN response.errorMsg ELSE "Unknown CLOB error")

\* createAndPostOrder settles
PostSettled ==
  /\ liveTrader.pc = "post"
  /\ \E response \in ClobResponses :
       liveTrader' = [liveTrader EXCEPT !.pc = "returned", !.result = PostResult(response)]
  /\ UNCHANGED <<engineVars, sizerIn, sizerOut, anIn, anOut, api, exIn, exOut,
                 coinGeckoCache, fetches, dbThrows>>

InitLive ==
  /\ ServerStarted
  /\ dbStatus = InitialStatus
  /\ trades = <<>>
  /\ sizerIn = NoCall /\ sizerOut = NoCall
  /\ anIn = NoCall /\ anOut = NoCall
  /\ api = NoCall
  /\ exIn = NoCall /\ exOut = NoCall
  /\ \E env \in LiveEnvs : liveTrader = LiveTraderConstructed(env)
  /\ coinGeckoCache = CacheLoaded
  /\ fetches = NoFetches
  /\ dbThrows = {}

NextLive ==
  \/ \E params \in OrderParams : placeOrder(params)
  \/ DeriveSettled
  \/ PostSettled

SpecLive == InitLive /\ [][NextLive]_vars

(***************************************************************************)
(* News sentiment: fetchCoinGeckoSentiment                                 *)
(***************************************************************************)
COINGECKO_COIN_IDS == {"bitcoin", "ethereum", "solana", "ripple"}
\* the cache's time to live, in seconds
COINGECKO_CACHE_TTL == 60
HALF_MINUTE == COINGECKO_CACHE_TTL \div 2

\* the coin names the function is called with
CoinNames == {"ethereum", "dogecoin"}

\* what a response of CoinGecko may carry: all the coins, some of them, or
\* no body at all
ResponseBodies ==
  {[present |-> TRUE, coins |-> COINGECKO_COIN_IDS],
   [present |-> TRUE, coins |-> {"bitcoin"}],
   NoData}

\* the clock advances by half a minute
GeckoTick ==
  /\ now < InWindowInstant + MaxHalfMinutes * HALF_MINUTE
  /\ now' = now + HALF_MINUTE
  /\ UNCHANGED <<procUp, crashes, config, isRunning, jobs, scheduled,
                 markets, processedTrades, strategyWeights, dbStatus, trades, scan,
                 opp, settle, executed, settled, callVars>>

\* COINGECKO_COIN_IDS.includes(coinName) ? coinName : 'bitcoin'
CoinId(coinName) == IF coinName \in COINGECKO_COIN_IDS THEN coinName ELSE "bitcoin"

\* coinGeckoCache.data && (now - coinGeckoCache.timestamp) < COINGECKO_CACHE_TTL
Fresh(cache, at) == cache.data.present /\ at - cache.timestamp < COINGECKO_CACHE_TTL

\* the body's entry for the coin turned into a result, or null without one
Built(body, coinId) == IF coinId \in body.coins THEN "result" ELSE "null"

\* a caller that never finds a promise to share
NoPromise_always(cache) == TRUE

\* !coinGeckoCache.promise
NoPromise(cache) == cache.promise = 0

\* the request a call sends when there is no promise to share
NextRequest == CHOOSE r \in RequestIds : fetches.requests[r].state = "unsent" /\ \A q \in RequestIds : fetches.requests[q].state = "unsent" => r <= q

\* fetchCoinGeckoSentiment is called: it returns from the cache, or it awaits
\* the promise in the cache, having sent a request when there was none
fetchCoinGeckoSentiment(c, coinName) ==
  /\ fetches.callers[c].pc \in {"idle", "returned"}
  /\ LET coinId == CoinId(coinName)
         call == [CallerIdle EXCEPT !.coinId = coinId]
     IN  IF Fresh(coinGeckoCache, now)
         THEN /\ fetches' = [fetches EXCEPT !.callers[c] =
                               [call EXCEPT !.pc = "returned", !.served = "cache",
                                            !.result = Built(coinGeckoCache.data, coinId)]]
              /\ UNCHANGED coinGeckoCache
         ELSE IF NoPromise(coinGeckoCache)
         THEN /\ \E r \in RequestIds : fetches.requests[r].state = "unsent"
              /\ coinGeckoCache' = [coinGeckoCache EXCEPT !.promise = NextRequest]
              /\ fetches' = [fetches EXCEPT !.requests[NextRequest].state = "pending",
                               !.callers[c] = [call EXCEPT !.pc = "await",
                                                           !.awaits = NextRequest]]
         ELSE /\ fetches' = [fetches EXCEPT !.callers[c] =
                               [call EXCEPT !.pc = "await",
                                            !.awaits = coinGeckoCache.promise]]
              /\ UNCHANGED coinGeckoCache
  /\ UNCHANGED <<engineVars, sizerIn, sizerOut, anIn, anOut, api, exIn, exOut,
                 liveTrader, dbThrows>>

\* The request of axios settles. Fulfilled, the handler of `then` stores the
\* body and the time in the cache and passes the body on; rejected, the
\* handler is skipped. The handler of `finally` has not run yet.
RequestSettled(r) ==
  /\ fetches.requests[r].state = "pending"
  /\ \/ \E body \in ResponseBodies :
          /\ coinGeckoCache' = [coinGeckoCache EXCEPT !.data = body, !.timestamp = now]
          /\ fetches' = [fetches EXCEPT !.requests[r] = [state |-> "fulfilled", body |-> body]]
     \/ /\ fetches' = [fetches EXCEPT !.requests[r].state = "rejected"]
        /\ UNCHANGED coinGeckoCache
  /\ UNCHANGED <<engineVars, sizerIn, sizerOut, anIn, anOut, api, exIn, exOut,
                 liveTrader, dbThrows>>

\* the handler of `finally` runs: the promise in the cache is set to null, and
\* the promise the callers await settles as the request did
FinallyRan(r) ==
  /\ fetches.requests[r].state \in {"fulfilled", "rejected"}
  /\ coinGeckoCache' = [coinGeckoCache EXCEPT !.promise = 0]
  /\ fetches' = [fetches EXCEPT !.requests[r].state =
                   IF @ = "fulfilled" THEN "resolved" ELSE "failed"]
  /\ UNCHANGED <<engineVars, sizerIn, sizerOut, anIn, anOut, api, exIn, exOut,
                 liveTrader, dbThrows>>

\* a caller goes on after `await coinGeckoCache.promise`: with the body, it
\* returns the coin's result, or null without an entry; reading a body that
\* is missing throws, and so does the await of a rejected promise: the catch
\* returns null
CallerResumed(c) ==
  /\ fetches.callers[c].pc = "await"
  /\ LET req == fetches.requests[fetches.callers[c].awaits]
     IN  /\ req.state \in {"resolved", "failed"}
         /\ fetches' = [fetches EXCEPT !.callers[c] =
                          [@ EXCEPT !.pc = "returned", !.served = "response",
                                    !.result = IF req.state = "resolved" /\ req.body.present
                                               THEN Built(req.body, fetches.callers[c].coinId)
                                               ELSE "null"]]
  /\ UNCHANGED <<engineVars, sizerIn, sizerOut, anIn, anOut, api, exIn, exOut,
                 liveTrader, coinGeckoCache, dbThrows>>

InitGecko ==
  /\ ServerStarted /\ config.maxExposure = Rat(30, 1)
  /\ dbStatus = InitialStatus
  /\ trades = <<>>
  /\ NoCalls

NextGecko ==
  \/ GeckoTick
  \/ \E c \in CallerIds, coinName \in CoinNames : fetchCoinGeckoSentiment(c, coinName)
  \/ \E r \in RequestIds : RequestSettled(r)
  \/ \E r \in RequestIds : FinallyRan(r)
  \/ \E c \in CallerIds : CallerResumed(c)

SpecGecko == InitGecko /\ [][NextGecko]_vars

\* The settlement cycles of an engine that, once started, keeps running: the
\* cron task keeps firing, every lookup returns, every invocation ends, and
\* a market that is looked up again and again is at last reported resolved
\* (strong fairness of the report, with its enabling condition written out).
TradeIds == 1..2
NextRetry ==
  \/ Tick
  \/ start
  \/ \E s \in ScanIds : ScanFetched(s)
  \/ SettleTimer
  \/ \E j \in SettleIds : SettleResolved(j)
  \/ \E j \in SettleIds : SettleReturn(j)

FairRetry ==
  /\ WF_vars(SettleTimer)
  /\ \A j \in SettleIds : WF_vars(SettleResolved(j)) /\ WF_vars(SettleReturn(j))
  /\ \A id \in TradeIds :
       []<>LookupPending(id) => []<><<\E j \in SettleIds : ResolutionReported(j, id)>>_vars

SpecRetry == InitSettle /\ [][NextRetry]_vars /\ FairRetry

(***************************************************************************)
(* Calls of the Position Sizer and of the Composite Analyzer               *)
(***************************************************************************)
\* composite scores, YES prices and configurations the sizer is called with
SizerScores ==
  {Rat(-1, 1), Rat(-1, 2), Rat(-1, 10), Zero, Rat(1, 10), Rat(36, 100), Rat(1, 2), One}
SizerYesPrices ==
  {Zero, Rat(1, 100), Rat(3, 10), Rat(1, 2), Rat(6, 10), Rat(9, 10), Rat(995, 1000), One}
SizerTradeAmounts == {Rat(10, 1), One, Rat(4, 10)}
SizerBankrolls == {Rat(100, 1), Rat(2, 1)}

SizerInputs ==
  {[called |-> TRUE,
    analysis |-> [compositeScore |-> sc, outcome |-> oc],
    prices |-> [yes_price |-> yp, no_price |-> RatSub(One, yp)],
    config |-> [tradeAmount |-> ta, bankroll |-> br]] :
     sc \in SizerScores, oc \in Outcomes, yp \in SizerYesPrices,
     ta \in SizerTradeAmounts, br \in SizerBankrolls}

InitSizer ==
  /\ ServerStarted
  /\ dbStatus = InitialStatus
  /\ trades = <<>>
  /\ sizerIn \in SizerInputs /\ sizerOut = NoCall
  /\ anIn = NoCall /\ anOut = NoCall
  /\ api = NoCall
  /\ exIn = NoCall /\ exOut = NoCall
  /\ ModulesLoaded

\* calculateKellyAmount is called and returns
SizerCall ==
  /\ sizerIn.called /\ ~sizerOut.called
  /\ sizerOut' = [called |-> TRUE,
                  amount |-> calculateKellyAmount(sizerIn.analysis, sizerIn.prices,
                                                  sizerIn.config)]
  /\ UNCHANGED <<engineVars, sizerIn, anIn, anOut, api, exIn, exOut, moduleVars>>

SpecSizer == InitSizer /\ [][SizerCall]_vars

\* weights in quarters
WeightSteps == 4
\* the weight triples PUT /api/weights accepts: numbers, none negative,
\* summing to 1 (here the multiples of 1/WeightSteps, and the defaults)
AcceptedWeights ==
  {[technical |-> Rat(abc[1], WeightSteps), news |-> Rat(abc[2], WeightSteps),
    orderFlow |-> Rat(abc[3], WeightSteps)] :
     abc \in {t \in (0..WeightSteps) \X (0..WeightSteps) \X (0..WeightSteps) :
                t[1] + t[2] + t[3] = WeightSteps}}
  \cup {DEFAULT_WEIGHTS}

\* what a provider's promise settles to: rejected, a value with an error
\* (score 0), or a score
TechnicalResults ==
  {Rejected, Fulfilled(Zero, TRUE, Zero), Fulfilled(Rat(6, 10), FALSE, Zero),
   Fulfilled(Rat(-6, 10), FALSE, Zero), Fulfilled(One, FALSE, Zero),
   FulfilledUndefined}
NewsResults ==
  {Rejected, Fulfilled(Zero, TRUE, Zero), Fulfilled(Rat(4, 10), FALSE, Zero),
   Fulfilled(Rat(-4, 10), FALSE, Zero), Fulfilled(Rat(2, 10), FALSE, Zero)}
OrderFlowResults ==
  {Rejected, Fulfilled(Zero, TRUE, Zero), Fulfilled(Rat(5, 10), FALSE, Rat(7, 10)),
   Fulfilled(Rat(5, 10), FALSE, Rat(2, 10)), Fulfilled(Rat(-5, 10), FALSE, One),
   Fulfilled(Rat(-5, 10), FALSE, Rat(2, 10)),
   Fulfilled(Rat(5, 10), FALSE, Rat(8, 10)), Fulfilled(Rat(1, 10), FALSE, Rat(8, 10)),
   Fulfilled(Rat(5, 10), FALSE, MissingConfidence)}

AnalyzerInputs ==
  {[called |-> TRUE, technical |-> t, news |-> n, orderFlow |-> o, weights |-> w] :
     t \in TechnicalResults, n \in NewsResults, o \in OrderFlowResults,
     w \in AcceptedWeights}

InitAnalyzer ==
  /\ ServerStarted
  /\ dbStatus = InitialStatus
  /\ trades = <<>>
  /\ sizerIn = NoCall /\ sizerOut = NoCall
  /\ anIn \in AnalyzerInputs /\ anOut = NoCall
  /\ api = NoCall
  /\ exIn = NoCall /\ exOut = NoCall
  /\ ModulesLoaded

\* analyzeMarket is called and returns
AnalyzerCall ==
  /\ anIn.called /\ ~anOut.called
  /\ anOut' = [called |-> TRUE,
               result |-> analyzeMarket(anIn.technical, anIn.news, anIn.orderFlow,
                                        anIn.weights)]
  /\ UNCHANGED <<engineVars, sizerIn, sizerOut, anIn, api, exIn, exOut, moduleVars>>

SpecAnalyzer == InitAnalyzer /\ [][AnalyzerCall]_vars

(***************************************************************************)
(* The HTTP API: PUT /api/weights                                          *)
(***************************************************************************)
\* A value of the request body: undefined (the key is missing), a number,
\* or a string; `lead` says that a string begins with a numeral and
\* `num` is the number, or the string's leading numeral.
Undefined == [kind |-> "undefined", lead |-> FALSE, num |-> NaN]
Num(n, d) == [kind |-> "number", lead |-> TRUE, num |-> Rat(n, d)]
Str(lead, n, d) == [kind |-> "string", lead |-> lead, num |-> Rat(n, d)]

\* parseFloat: a number as it is, the leading numeral of a string, NaN for
\* anything else
parseFloat(raw) ==
  IF raw.kind = "number" THEN raw.num
  ELSE IF raw.kind = "string" /\ raw.lead THEN raw.num
  ELSE NaN

WEIGHT_SUM_TOLERANCE == Rat(1, 100)

\* TradingEngine.updateWeights: the new keys over the old ones
updateWeights(old, new) ==
  [k \in DOMAIN old \cup DOMAIN new |-> IF k \in DOMAIN new THEN new[k] ELSE old[k]]

\* the handler's validation without the test of the signs
ValidateWeights_noSign(body) ==
  LET techWeight == parseFloat(body.technical)
      newsWeight == parseFloat(body.news)
      ofWeight == parseFloat(body.orderFlow)
      sum == RatAdd(RatAdd(techWeight, newsWeight), ofWeight)
  IN  IF \/ body.technical.kind = "undefined" \/ body.news.kind = "undefined"
         \/ body.orderFlow.kind = "undefined"
      THEN [status |-> 400]
      ELSE IF IsNaN(techWeight) \/ IsNaN(newsWeight) \/ IsNaN(ofWeight)
      THEN [status |-> 400]
      ELSE IF RatGt(RatAbs(RatSub(sum, One)), WEIGHT_SUM_TOLERANCE)
      THEN [status |-> 400]
      ELSE [status |-> 200,
            weights |-> [technical |-> techWeight, news |-> newsWeight,
                         orderFlow |-> ofWeight]]

\* the handler's validation: status 400, or status 200 with the new weights
ValidateWeights(body) ==
  LET techWeight == parseFloat(body.technical)
      newsWeight == parseFloat(body.news)
      ofWeight == parseFloat(body.orderFlow)
      sum == RatAdd(RatAdd(techWeight, newsWeight), ofWeight)
  IN  IF \/ body.technical.kind = "undefined" \/ body.news.kind = "undefined"
         \/ body.orderFlow.kind = "undefined"
      THEN [status |-> 400]
      ELSE IF IsNaN(techWeight) \/ IsNaN(newsWeight) \/ IsNaN(ofWeight)
      THEN [status |-> 400]
      ELSE IF RatGt(RatAbs(RatSub(sum, One)), WEIGHT_SUM_TOLERANCE)
      THEN [status |-> 400]
      ELSE IF RatLt(techWeight, Zero) \/ RatLt(newsWeight, Zero) \/ RatLt(ofWeight, Zero)
      THEN [status |-> 400]
      ELSE [status |-> 200,
            weights |-> [technical |-> techWeight, news |-> newsWeight,
                         orderFlow |-> ofWeight]]

\* what a client may send for one weight
RawWeights ==
  {Undefined, Str(FALSE, 0, 1), Str(TRUE, 1, 2), Num(0, 1), Num(-1, 2), Num(3, 2),
   Num(502, 1000)}
WeightBodies == [technical : RawWeights, news : RawWeights, orderFlow : RawWeights]

\* PUT /api/weights
PutWeights ==
  /\ procUp
  /\ \E body \in WeightBodies :
       LET v == ValidateWeights(body)
       IN  /\ api' = [called |-> TRUE, body |-> body, status |-> v.status]
           /\ strategyWeights' = IF v.status = 200
                                 THEN updateWeights(strategyWeights, v.weights)
                                 ELSE strategyWeights
  /\ UNCHANGED <<procUp, crashes, now, config, isRunning, jobs, scheduled,
                 markets, processedTrades, dbStatus, trades, scan, opp, settle,
                 executed, settled, sizerIn, sizerOut, anIn, anOut, exIn, exOut, moduleVars>>

SpecWeights == Init /\ [][PutWeights]_vars

(***************************************************************************)
(* A call of executeTrade                                                  *)
(***************************************************************************)
\* the quotes of the CLOB, and a quote without a price for YES
ExecutePrices == PriceQuotes \cup {[yes_price |-> Zero, no_price |-> One]}

ExecuteInputs ==
  [called : {TRUE}, market : {AllMarkets[1], AllMarkets[2]}, outcome : Outcomes,
   prices : ExecutePrices, mode : {"paper", "live"},
   allocatedAmount : {Rat(20, 1), Rat(10, 1)},
   throwsAt : {"none", "insertTrade", "getStats"}]

\* a started server, on an empty database or on one of an earlier run, and a
\* call of executeTrade
InitExecute ==
  /\ ServerStarted
  /\ \/ trades = <<>> /\ dbStatus = InitialStatus
     \/ \E db \in PastDatabases : trades = db.trades /\ dbStatus = db.status
  /\ sizerIn = NoCall /\ sizerOut = NoCall
  /\ anIn = NoCall /\ anOut = NoCall
  /\ api = NoCall
  /\ exIn \in ExecuteInputs /\ exOut = NoCall
  /\ ModulesLoaded

ExecuteCall ==
  /\ exIn.called /\ ~exOut.called
  /\ LET r == executeTrade_caught(trades, dbStatus, exIn.market, "BUY", exIn.outcome,
                                  exIn.prices, exIn.mode, exIn.allocatedAmount,
                                  exIn.throwsAt)
     IN  /\ trades' = r.trades
         /\ dbStatus' = r.status
         /\ exOut' = [called |-> TRUE, events |-> r.events]
  /\ UNCHANGED <<procUp, crashes, now, config, isRunning, jobs, scheduled,
                 markets, processedTrades, strategyWeights, scan, opp, settle,
                 executed, settled, sizerIn, sizerOut, anIn, anOut, api, exIn, moduleVars>>

SpecExecute == InitExecute /\ [][ExecuteCall]_vars

(***************************************************************************)
(* The HTTP API: mode, records, config                                     *)
(***************************************************************************)
\* POST /api/mode: the mode is written to the status row
SetMode ==
  /\ procUp
  /\ \E mode \in {"paper", "live", "demo"} :
       IF mode \notin {"paper", "live"}
       THEN UNCHANGED dbStatus
       ELSE dbStatus' = [dbStatus EXCEPT !.mode = mode]
  /\ UNCHANGED <<procUp, crashes, now, config, isRunning, jobs, scheduled,
                 markets, processedTrades, strategyWeights, trades, scan, opp,
                 settle, executed, settled, callVars>>

\* Database.clearAllRecords: the trades (and the snapshots) are deleted and
\* the counters of the status row are reset
clearAllRecords(status) == [status EXCEPT !.total_trades = 0, !.total_pnl = Zero]

\* DELETE /api/records that deletes the newest trade only
ClearRecords_newestOnly ==
  /\ procUp
  /\ trades' = SubSeq(trades, 1, Len(trades) - 1)
  /\ dbStatus' = clearAllRecords(dbStatus)
  /\ UNCHANGED <<procUp, crashes, now, config, isRunning, jobs, scheduled,
                 markets, processedTrades, strategyWeights, scan, opp, settle,
                 executed, settled, callVars>>

\* DELETE /api/records that also forgets the traded pairs
ClearRecords_forgetKeys ==
  /\ procUp
  /\ trades' = <<>>
  /\ dbStatus' = clearAllRecords(dbStatus)
  /\ processedTrades' = {}
  /\ UNCHANGED <<procUp, crashes, now, config, isRunning, jobs, scheduled,
                 markets, strategyWeights, scan, opp, settle,
                 executed, settled, callVars>>

\* DELETE /api/records
ClearRecords ==
  /\ procUp
  /\ trades' = <<>>
  /\ dbStatus' = clearAllRecords(dbStatus)
  /\ UNCHANGED <<procUp, crashes, now, config, isRunning, jobs, scheduled,
                 markets, processedTrades, strategyWeights, scan, opp, settle,
                 executed, settled, callVars>>

\* TradingEngine.updateConfig: the new keys over the old ones
updateConfig(old, new) ==
  [k \in DOMAIN old |-> IF k \in DOMAIN new THEN new[k] ELSE old[k]]

\* newConfig of PUT /api/config without the update of maxExposure that
\* follows a new bankroll
NewConfig_staleExposure(body) ==
  LET given == {k \in DOMAIN body : body[k].kind # "undefined"}
  IN  [k \in given |-> parseFloat(body[k])]

\* newConfig of PUT /api/config: the keys the body defines, parsed; a new
\* bankroll without a maxExposure sets maxExposure to half the bankroll
NewConfig(body) ==
  LET given == {k \in DOMAIN body : body[k].kind # "undefined"}
      keys == IF "bankroll" \in given THEN given \cup {"maxExposure"} ELSE given
  IN  [k \in keys |->
         IF k = "maxExposure" /\ k \notin given
         THEN RatMul(parseFloat(body.bankroll), Rat(5, 10))
         ELSE parseFloat(body[k])]

\* what a client may send to PUT /api/config: a new exposure ceiling
ConfigBodies ==
  {[bankroll |-> Undefined, maxExposure |-> Num(30, 1)],
   [bankroll |-> Undefined, maxExposure |-> Num(20, 1)]}

\* PUT /api/config
PutConfig ==
  /\ procUp
  /\ \E body \in ConfigBodies : config' = updateConfig(config, NewConfig(body))
  /\ UNCHANGED <<procUp, crashes, now, isRunning, jobs, scheduled,
                 markets, processedTrades, strategyWeights, dbStatus, trades,
                 scan, opp, settle, executed, settled, callVars>>

\* A started engine whose scan found one market listed, on an empty database.
InitLifetime ==
  /\ procUp = TRUE
  /\ crashes = 0
  /\ now = InWindowInstant
  /\ config = ConstructConfig(CHOOSE c \in EnvConfigs : c.maxExposure = Rat(30, 1))
  /\ isRunning = TRUE
  /\ jobs = [k \in JobKinds |-> TRUE]
  /\ scheduled = [k \in JobKinds |-> 1]
  /\ markets = <<AllMarkets[1]>>
  /\ processedTrades = {}
  /\ strategyWeights = DEFAULT_WEIGHTS
  /\ scan = [s \in ScanIds |-> IF s = 1 THEN ScanLoop(1, 0) ELSE ScanIdle]
  /\ opp = [i \in OppIds |-> OppIdle]
  /\ settle = [j \in SettleIds |-> SettleIdle]
  /\ executed = [key \in MarketIds \X Outcomes |-> 0]
  /\ settled = <<>>
  /\ dbStatus = [InitialStatus EXCEPT !.is_running = TRUE]
  /\ trades = <<>>
  /\ NoCalls

\* the engine and the API within one process lifetime (the listing of a scan
\* begun by start does not arrive)
NextLifetime ==
  \/ start
  \/ stop
  \/ OppTimer
  \/ \E i \in OppIds : OppAnalyzed(i)
  \/ \E i \in OppIds : OppExecuted(i)
  \/ SetMode
  \/ ClearRecords
  \/ PutConfig

SpecLifetime == InitLifetime /\ [][NextLifetime]_vars

\* Opportunity cycles of a running engine whose configuration is changed
\* through PUT /api/config; the environment sets MAX_EXPOSURE to 30 or leaves
\* it unset, and a request may carry a bankroll (40), a maxExposure (20), both
\* or neither. The request is kept in `api`.
BudgetEnvConfigs ==
  {[tradeAmount |-> Rat(10, 1), tradeWindowSeconds |-> 6,
    oddsMinPrice |-> Rat(30, 100), oddsMaxPrice |-> Rat(75, 100),
    maxRiskReward |-> Rat(5, 1), bankroll |-> Rat(100, 1),
    maxExposure |-> mx] : mx \in {Null, Rat(30, 1)}}

BudgetBodies ==
  {[bankroll |-> b, maxExposure |-> e] :
     b \in {Undefined, Num(40, 1)}, e \in {Undefined, Num(20, 1)}}

InitBudget ==
  /\ procUp = TRUE
  /\ crashes = 0
  /\ now = InWindowInstant
  /\ \E c \in BudgetEnvConfigs : config = ConstructConfig(c)
  /\ isRunning = TRUE
  /\ jobs = [k \in JobKinds |-> TRUE]
  /\ scheduled = [k \in JobKinds |-> 1]
  /\ markets = <<AllMarkets[1]>>
  /\ processedTrades = {}
  /\ strategyWeights = DEFAULT_WEIGHTS
  /\ scan = [s \in ScanIds |-> IF s = 1 THEN ScanLoop(1, 0) ELSE ScanIdle]
  /\ opp = [i \in OppIds |-> OppIdle]
  /\ settle = [j \in SettleIds |-> SettleIdle]
  /\ executed = [key \in MarketIds \X Outcomes |-> 0]
  /\ settled = <<>>
  /\ dbStatus = [InitialStatus EXCEPT !.is_running = TRUE]
  /\ trades = <<>>
  /\ NoCalls

\* PUT /api/config, the request kept
PutBudgetConfig ==
  /\ procUp
  /\ \E body \in BudgetBodies :
       /\ config' = updateConfig(config, NewConfig(body))
       /\ api' = [called |-> TRUE, body |-> body]
  /\ UNCHANGED <<procUp, crashes, now, isRunning, jobs, scheduled,
                 markets, processedTrades, strategyWeights, dbStatus, trades,
                 scan, opp, settle, executed, settled,
                 sizerIn, sizerOut, anIn, anOut, exIn, exOut, moduleVars>>

NextBudget ==
  \/ OppTimer
  \/ \E i \in OppIds : OppAnalyzed(i)
  \/ \E i \in OppIds : OppExecuted(i)
  \/ PutBudgetConfig

SpecBudget == InitBudget /\ [][NextBudget]_vars

(***************************************************************************)
(* Opportunity cycle: de-duplication and the allocator                     *)
(***************************************************************************)
TradeKeys == MarketIds \X Outcomes

\* the entries of an invocation's log that funded a candidate
Funded(log) == SelectSeq(log, LAMBDA e : e.kind = "funded")

RECURSIVE SumAmounts(_)
SumAmounts(log) ==
  IF log = <<>> THEN Zero ELSE RatAdd(Head(log).amount, SumAmounts(Tail(log)))

\* the invocations of checkTradingOpportunities that reached Phase 3
InPhase3(i) == opp[i].pc \in {"exec", "done"}

\* C1: within one engine lifetime executeTrade is invoked at most once for
\* each (market_id, outcome) key, overlapping invocations of
\* checkTradingOpportunities included.
C1_TradedAtMostOnce == \A key \in TradeKeys : executed[key] <= 1

\* C2: in any single opportunity cycle the sum of the amounts allocated to
\* (and executed for) candidates never exceeds the cycle's exposure ceiling.
C2_AllocationWithinCeiling ==
  \A i \in OppIds :
    InPhase3(i) => RatLe(SumAmounts(Funded(opp[i].log)), opp[i].maxExposure)

\* a cycle has funded two candidates, the second reduced to the budget left
C2_Witness ==
  \E i \in OppIds :
    /\ opp[i].pc = "done"
    /\ Len(Funded(opp[i].log)) = 2
    /\ RatLt(Funded(opp[i].log)[2].amount, Funded(opp[i].log)[1].amount)
    /\ SumAmounts(Funded(opp[i].log)) = opp[i].maxExposure

\* once remainingBudget <= 0 no further candidate is funded: each candidate
\* that follows is skipped as budget_exhausted, and a candidate is skipped
\* only then
ExhaustionRespected(log) ==
  \A a \in 1..Len(log) :
    /\ log[a].kind = "budget_exhausted" <=> RatLe(log[a].before, Zero)
    /\ log[a].kind = "funded" => RatGt(log[a].amount, Zero)

C10_ScanVisitsEveryMarket ==
  \A s \in ScanIds : scan[s].pc \in {"done", "failed"} => scan[s].visited = scan[s].n

(***************************************************************************)
(* Position Sizer                                                          *)
(***************************************************************************)
\* the inputs the range is stated for: a base amount whose double reaches
\* the $1 floor (the interval [1, 2*baseAmount] is not empty)
ValidSizerInput(in) ==
  RatGe(RatMul(OrDefault(in.config.tradeAmount, DEFAULT_TRADE_AMOUNT),
               MAX_TRADE_MULTIPLIER), MIN_TRADE)

C5_EffectiveWeightsSumToOne ==
  anOut.called =>
    LET w == anOut.result.weights
        succeeded == \/ isStrategySuccessful(anIn.technical)
                     \/ isStrategySuccessful(anIn.news)
                     \/ isStrategySuccessful(anIn.orderFlow)
    IN  /\ succeeded => RatAdd(RatAdd(w.technical, w.news), w.orderFlow) = One
        /\ ~succeeded => anOut.result.compositeScore = Zero

(***************************************************************************)
(* Settlement                                                              *)
(***************************************************************************)
\* C6: each paper trade is settled (updateTrade and the tradeSettled event)
\* at most once, whatever the interleaving of the settlement cycles.
C6_SettledAtMostOnce ==
  \A a, b \in 1..Len(settled) : a # b => settled[a] # settled[b]

\* C9: when a paper trade's market is resolved the persisted PnL is
\* shares - amount if the trade's outcome equals the winner and -amount
\* otherwise; an unsettled trade carries PnL 0.
C9_SettlementPnl ==
  \A r \in 1..Len(trades) :
    LET t == trades[r]
    IN  IF \E a \in 1..Len(settled) : settled[a] = t.id
        THEN t.pnl = IF t.outcome = ResolvedSide(t.notes.slug)
                     THEN RatSub(t.shares, t.amount)
                     ELSE RatNeg(t.amount)
        ELSE t.pnl = Zero

\* the winning trade of 50 shares bought for 20 carries PnL 30 and the losing
\* trade of amount 20 carries -20
C9_Witness ==
  /\ \E r \in 1..Len(trades) :
       /\ trades[r].shares = Rat(50, 1) /\ trades[r].amount = Rat(20, 1)
       /\ trades[r].outcome = ResolvedSide(trades[r].notes.slug)
       /\ trades[r].pnl = Rat(30, 1)
  /\ \E r \in 1..Len(trades) :
       /\ trades[r].amount = Rat(20, 1)
       /\ trades[r].outcome # ResolvedSide(trades[r].notes.slug)
       /\ trades[r].pnl = Rat(-20, 1)

C11_NeverThrows ==
  anOut.called =>
    LET r == anOut.result
        internalFailure == \/ ValueMissing(anIn.technical)
                           \/ ValueMissing(anIn.news)
                           \/ ValueMissing(anIn.orderFlow)
    IN  /\ ~r.thrown
        /\ r.decision \in {"BUY", "HOLD"}
        /\ ~internalFailure =>
             /\ ~r.error
             /\ \A p \in {"technical", "news", "orderFlow"} :
                  anIn[p].status = "fulfilled" => r.breakdown[p].score = anIn[p].score
        /\ internalFailure =>
             /\ r.error /\ r.decision = "HOLD" /\ r.outcome = "null"
             /\ r.compositeScore = Zero /\ r.confidence = Zero
             /\ \A p \in {"technical", "news", "orderFlow"} : r.breakdown[p].score = Zero

\* the technical promise fulfilled without a value while news and order flow
\* delivered scores: the neutral HOLD analysis with its error field
C11_Witness ==
  /\ anOut.called
  /\ ValueMissing(anIn.technical)
  /\ isStrategySuccessful(anIn.news) /\ isStrategySuccessful(anIn.orderFlow)
  /\ anOut.result.error /\ anOut.result.decision = "HOLD"

(***************************************************************************)
(* Composite Analyzer: decision thresholds and the liquidity downgrade     *)
(***************************************************************************)
\* an analysis returned by the try block
Analysed == anOut.called /\ ~anOut.result.error

\* the order flow reports low liquidity
LowLiquidity ==
  anIn.orderFlow.status = "fulfilled" /\ RatLt(anIn.orderFlow.confidence, Rat(3, 10))

\* the decision, outcome and hint of the returned analysis
Returned(decision, outcome, hint) ==
  /\ anOut.result.decision = decision
  /\ anOut.result.outcome = outcome
  /\ anOut.result.tradeAmount = hint

StrongYes ==
  RatGt(anOut.result.compositeScore, Rat(5, 10)) /\ RatGt(anOut.result.confidence, Rat(65, 100))
ModerateYes ==
  RatGt(anOut.result.compositeScore, Rat(35, 100)) /\ RatGt(anOut.result.confidence, Rat(50, 100))
StrongNo ==
  RatLt(anOut.result.compositeScore, Rat(-5, 10)) /\ RatGt(anOut.result.confidence, Rat(65, 100))
ModerateNo ==
  RatLt(anOut.result.compositeScore, Rat(-35, 100)) /\ RatGt(anOut.result.confidence, Rat(50, 100))

\* C12: without the liquidity downgrade the decision is BUY YES/increased
\* iff compositeScore > 0.5 and confidence > 0.65; BUY YES/normal iff that
\* fails and compositeScore > 0.35 and confidence > 0.50; BUY NO with the
\* symmetric negative thresholds; HOLD with null outcome otherwise.  The four
\* BUY cases exclude one another.
C12_DecisionThresholds ==
  (Analysed /\ ~LowLiquidity) =>
    /\ Returned("BUY", "YES", "increased") <=> StrongYes
    /\ Returned("BUY", "YES", "normal") <=> (~StrongYes /\ ModerateYes)
    /\ Returned("BUY", "NO", "increased") <=> StrongNo
    /\ Returned("BUY", "NO", "normal") <=> (~StrongNo /\ ModerateNo)
    /\ Returned("HOLD", "null", "normal") <=>
         ~(StrongYes \/ ModerateYes \/ StrongNo \/ ModerateNo)
    /\ ~((StrongYes \/ ModerateYes) /\ (StrongNo \/ ModerateNo))

\* a composite score of exactly 0.5 with high confidence: BUY YES, hint normal
C12_Witness ==
  /\ Analysed /\ ~LowLiquidity
  /\ anOut.result.compositeScore = Rat(5, 10)
  /\ RatGt(anOut.result.confidence, Rat(65, 100))
  /\ Returned("BUY", "YES", "normal")

\* C13: when the order-flow confidence is < 0.3 a BUY with hint increased is
\* returned as BUY with hint normal (outcome kept), a BUY with hint normal as
\* HOLD with null outcome; the downgrade is applied once, and BUY/increased
\* is never returned.
C13_LiquidityDowngrade ==
  (Analysed /\ LowLiquidity) =>
    /\ StrongYes => Returned("BUY", "YES", "normal")
    /\ StrongNo => Returned("BUY", "NO", "normal")
    /\ (~StrongYes /\ ModerateYes) => Returned("HOLD", "null", "normal")
    /\ (~StrongNo /\ ModerateNo) => Returned("HOLD", "null", "normal")
    /\ anOut.result.tradeAmount # "increased"

\* low liquidity with a strong bullish signal: BUY YES with hint normal
C13_Witness ==
  /\ Analysed /\ LowLiquidity /\ StrongYes
  /\ Returned("BUY", "YES", "normal")

(***************************************************************************)
(* Opportunity cycle: the trading window                                   *)
(***************************************************************************)
\* invocation i turns to a market in this step: it reaches the awaits of
\* getMarketPrices and analyzeMarket for it
TurnsToMarket(i) ==
  /\ opp'[i].pc = "analyze"
  /\ opp[i].pc # "analyze" \/ opp'[i].idx # opp[i].idx

\* the time remaining of a market at the current second
TimeRemaining(market) == market.end_date - now

TurnsToTrade(j) ==
  /\ settle'[j].pc = "resolve"
  /\ settle[j].pc # "resolve" \/ settle'[j].idx # settle[j].idx

\* the deadline of the trade with this id
DeadlineOf(id) ==
  LET r == CHOOSE r \in DOMAIN trades : trades[r].id = id
  IN  trades[r].notes.end_date

\* C16: a paper trade is looked up for resolution, and settled, only after
\* its deadline: never at a time <= its end_date, whatever the market reports.
C16_SettledAfterDeadline ==
  [][/\ \A j \in SettleIds :
          TurnsToTrade(j) => now > settle'[j].list[settle'[j].idx].notes.end_date
     /\ Len(settled') > Len(settled) =>
          now > DeadlineOf(settled'[Len(settled')])]_vars

\* at the last second of the clock the first trade is settled and the trade
\* whose deadline is that very second still carries PnL 0, with a settlement
\* cycle finished
C16_Witness ==
  /\ Len(settled) > 0
  /\ \E j \in SettleIds : settle[j].pc = "done"
  /\ \E r \in DOMAIN trades :
       /\ trades[r].mode = "paper" /\ trades[r].notes.end_date = now
       /\ trades[r].pnl = Zero

(***************************************************************************)
(* Settlement: retries                                                     *)
(***************************************************************************)
\* the paper trade with this id carries no PnL yet and its deadline has passed
AwaitsSettlement(id) ==
  \E r \in DOMAIN trades :
    /\ trades[r].id = id /\ trades[r].mode = "paper" /\ trades[r].pnl = Zero
    /\ now > trades[r].notes.end_date

Settled(id) == \E a \in DOMAIN settled : settled[a] = id

\* C15: a lookup that finds the market unresolved leaves the trades as they
\* are, and the trade is looked up again by the later settlement cycles
\* without a limit: while the engine keeps running, a paper trade past its
\* deadline whose market is eventually reported resolved is eventually settled.
C15_EventuallySettled ==
  /\ [][trades' # trades => Len(settled') > Len(settled)]_vars
  /\ \A id \in TradeIds : (isRunning /\ AwaitsSettlement(id)) ~> Settled(id)

\* a cycle has passed the first trade, whose market was not resolved, and is
\* at the second one: the first still awaits its settlement
C15_Witness ==
  \E j \in SettleIds :
    /\ isRunning
    /\ settle[j].pc = "resolve" /\ settle[j].idx = 2
    /\ \A l \in SettleIds \ {j} : settle[l].pc = "idle"
    /\ AwaitsSettlement(settle[j].list[1].id)
    /\ ~Settled(settle[j].list[1].id)

(***************************************************************************)
(* Strategy weights                                                        *)
(***************************************************************************)
\* a body value is numeric: a number, or a string with a leading numeral
Numeric(raw) == raw.kind = "number" \/ (raw.kind = "string" /\ raw.lead)

\* weights that are non-negative and sum to 1.0 within 0.01
WellFormedWeights(w) ==
  /\ \A k \in {"technical", "news", "orderFlow"} : RatGe(w[k], Zero)
  /\ RatGe(RatAdd(RatAdd(w.technical, w.news), w.orderFlow), Rat(99, 100))
  /\ RatLe(RatAdd(RatAdd(w.technical, w.news), w.orderFlow), Rat(101, 100))

WeightsRequest == api.called

\* C17: a weight update is accepted only if all three weights are provided,
\* numeric, non-negative and sum to 1.0 within 0.01, and then the engine
\* holds the weights sent; a rejected update leaves the engine's weights
\* unchanged; so the engine's weights are always non-negative and sum to
\* 1.0 within 0.01.
C17_WeightsValidated ==
  /\ [](WellFormedWeights(strategyWeights))
  /\ [](WeightsRequest =>
          (api.status = 200 <=>
             /\ \A k \in {"technical", "news", "orderFlow"} : Numeric(api.body[k])
             /\ WellFormedWeights([k \in {"technical", "news", "orderFlow"} |->
                                     api.body[k].num])))
  /\ [](WeightsRequest /\ api.status = 200 =>
          \A k \in {"technical", "news", "orderFlow"} :
            strategyWeights[k] = api.body[k].num)
  /\ [][WeightsRequest' /\ api'.status # 200 => strategyWeights' = strategyWeights]_vars

\* an update of 1.5, -0.5, 0 (sum 1.0) was rejected after an accepted update
\* to 0.502, 0.5, 0: the engine still holds the accepted weights
C17_Witness ==
  /\ WeightsRequest /\ api.status # 200
  /\ api.body.technical = Num(3, 2) /\ api.body.news = Num(-1, 2)
  /\ api.body.orderFlow = Num(0, 1)
  /\ strategyWeights =
       [technical |-> Rat(502, 1000), news |-> Rat(1, 2), orderFlow |-> Zero]

(***************************************************************************)
(* Execution failure                                                       *)
(***************************************************************************)
\* the event was emitted by the call
Emitted(event) == \E e \in DOMAIN exOut.events : exOut.events[e] = event

\* C18: when a live-mode execution fails (the order is not placed, or an
\* exception is thrown) the trade is persisted with status failed and PnL 0
\* and the failure is surfaced by an error event.
C18_LiveFailureSurfaced ==
  (/\ exOut.called /\ exIn.mode = "live"
   /\ ~InvalidPrice(TokenPrice(exIn.outcome, exIn.prices))) =>
    /\ Len(trades) > 0
    /\ LET trade == trades[Len(trades)]
       IN  /\ trade.mode = "live" /\ trade.market_id = exIn.market.market_id
           /\ trade.outcome = exIn.outcome
           /\ trade.status = "failed" /\ trade.pnl = Zero
    /\ Emitted("error")

(***************************************************************************)
(* De-duplication set lifetime                                             *)
(***************************************************************************)
\* the candidates of invocation i that this step collects
Collected(i) ==
  {opp'[i].cands[k] : k \in DOMAIN opp'[i].cands} \
    {opp[i].cands[k] : k \in DOMAIN opp[i].cands}

\* C19: within a process lifetime the set of traded (market, outcome) pairs
\* only grows; a step that changes the mode, deletes the records, changes
\* the config, stops or starts the engine leaves it unchanged; a pair in the set is never collected as a candidate
\* again, whatever the mode and the records are by then.
C19_ProcessedTradesOnlyGrows ==
  [][/\ processedTrades \subseteq processedTrades'
     /\ (isRunning' # isRunning \/ config' # config
           \/ dbStatus'.mode # dbStatus.mode \/ Len(trades') < Len(trades))
          => processedTrades' = processedTrades
     /\ \A i \in OppIds : \A c \in Collected(i) : c.tradeKey \notin processedTrades]_vars

\* a pair was traded; the mode is live now, the records were cleared, the
\* engine was stopped, and the pair is still in the set
C19_Witness ==
  /\ dbStatus.mode = "live" /\ trades = <<>> /\ ~isRunning
  /\ \E key \in processedTrades : executed[key] > 0

(***************************************************************************)
(* Composite Analyzer: the bound of the composite score                    *)
(***************************************************************************)
\* C20: for provider scores in [-1, 1], accepted weights and any set of
\* successful providers the composite score lies in [-1, 1].
C20_CompositeWithinBounds ==
  anOut.called =>
    /\ RatGe(anOut.result.compositeScore, Rat(-1, 1))
    /\ RatLe(anOut.result.compositeScore, One)

(***************************************************************************)
(* Position Sizer: the single-position ceiling                             *)
(***************************************************************************)
\* C21: for every bankroll and base amount the amount sized for one
\* candidate never exceeds 25% of the bankroll, whatever the edge is.
C21_SinglePositionCeiling ==
  (sizerOut.called /\ ~IsNull(sizerOut.amount)) =>
    RatLe(sizerOut.amount,
          RatMul(Rat(25, 100), OrDefault(sizerIn.config.bankroll, DEFAULT_BANKROLL)))

(***************************************************************************)
(* Opportunity check: the odds band and the risk/reward guard              *)
(***************************************************************************)
\* the price passes the guards of the configuration: it lies inside
\* [oddsMinPrice, oddsMaxPrice] and price / (1 - price) <= maxRiskReward
WithinGuards(price, cfg) ==
  /\ RatGe(price, OrDefault(cfg.oddsMinPrice, DEFAULT_ODDS_MIN_PRICE))
  /\ RatLe(price, OrDefault(cfg.oddsMaxPrice, DEFAULT_ODDS_MAX_PRICE))
  /\ RatLt(price, One)
  /\ RatLe(RatDiv(price, RatSub(One, price)),
           OrDefault(cfg.maxRiskReward, DEFAULT_MAX_RISK_REWARD))

\* C22: every opened trade has a fill price inside
\* [oddsMinPrice, oddsMaxPrice] and a risk/reward ratio price / (1 - price)
\* of at most maxRiskReward; a candidate that violates either guard is never
\* sized (it is not among the candidates, which all carry a Kelly amount) and
\* never funded (every pair marked as traded has a trade, and so a fill price
\* that passes).
C22_GuardsRespected ==
  /\ \A k \in DOMAIN trades : WithinGuards(trades[k].price, config)
  /\ \A i \in OppIds : \A k \in DOMAIN opp[i].cands :
       WithinGuards(TokenPrice(opp[i].cands[k].outcome, opp[i].cands[k].prices), config)
  /\ \A key \in processedTrades : \E k \in DOMAIN trades :
       trades[k].market_id = key[1] /\ trades[k].outcome = key[2]

\* under a risk/reward limit of 1 a trade was opened at 0.40 (ratio 2/3) and
\* the cycle ended on a BUY YES quoted at 0.60 (ratio 3/2) that opened none
C22_Witness ==
  /\ config.maxRiskReward = One
  /\ \E k \in DOMAIN trades : trades[k].price = Rat(40, 100)
  /\ \A k \in DOMAIN trades : trades[k].price # Rat(60, 100)
  /\ \E i \in OppIds : opp[i].pc = "done"
  /\ anIn.called /\ anIn.analysis.decision = "BUY" /\ anIn.analysis.outcome = "YES"
  /\ anIn.prices.yes_price = Rat(60, 100)
  /\ <<anIn.market.market_id, "YES">> \notin processedTrades

(***************************************************************************)
(* Candidate Allocator: the budget of a cycle                              *)
(***************************************************************************)
\* invocation i of the opportunity check reads its budget in this step
ReadsBudget(i) ==
  opp[i].pc \in {"idle", "analyze"} /\ opp'[i].pc \in {"exec", "done"}

\* the bankroll the engine works with
EffectiveBankroll == OrDefault(config.bankroll, DEFAULT_BANKROLL)

\* C23 as stated: the budget a cycle starts its allocation with is
\* bankroll * 0.5, for every configuration reachable through the constructor
\* and updateConfig.
C23_BudgetIsHalfBankroll ==
  [][\A i \in OppIds :
       ReadsBudget(i) =>
         opp'[i].maxExposure = RatMul(EffectiveBankroll, DEFAULT_MAX_EXPOSURE_RATIO)]_vars

\* C23, amended: the budget a cycle starts its allocation with is the
\* configured maxExposure (50 when that is not a non-zero number). The
\* constructor sets maxExposure to bankroll * 0.5 when the environment gives
\* none, and a PUT /api/config that carries a bankroll and no maxExposure sets
\* it to the new bankroll * 0.5; a maxExposure given by the environment or by
\* a request is kept as it is, whatever the bankroll.
C23_BudgetIsMaxExposure ==
  /\ [][\A i \in OppIds :
          ReadsBudget(i) =>
            opp'[i].maxExposure = OrDefault(config.maxExposure, FALLBACK_MAX_EXPOSURE)]_vars
  /\ [](~api.called =>
          config.maxExposure \in
            {Rat(30, 1), RatMul(EffectiveBankroll, DEFAULT_MAX_EXPOSURE_RATIO)})
  /\ []((api.called /\ api.body.bankroll.kind # "undefined")
          => /\ config.bankroll = parseFloat(api.body.bankroll)
             /\ config.maxExposure =
                  IF api.body.maxExposure.kind = "undefined"
                  THEN RatMul(EffectiveBankroll, DEFAULT_MAX_EXPOSURE_RATIO)
                  ELSE parseFloat(api.body.maxExposure))
  /\ [][(api'.called /\ api' # api /\ api'.body.bankroll.kind = "undefined")
          => /\ config'.bankroll = config.bankroll
             /\ config'.maxExposure =
                  IF api'.body.maxExposure.kind = "undefined"
                  THEN config.maxExposure
                  ELSE parseFloat(api'.body.maxExposure)]_vars

\* after a request that carried the bankroll 40 alone, a cycle allocates from
\* a budget of 20
C23_Witness ==
  /\ api.called /\ api.body.bankroll = Num(40, 1) /\ api.body.maxExposure = Undefined
  /\ \E i \in OppIds : opp[i].pc = "exec" /\ opp[i].maxExposure = Rat(20, 1)
                        /\ opp[i].remaining = Rat(20, 1)

(***************************************************************************)
(* Candidate Allocator: the amount of a funded candidate                   *)
(***************************************************************************)
\* C24: each funded candidate is executed for exactly
\* min(candidateAmount, remainingBudget), the persisted trade records that
\* amount, and remainingBudget is decremented by it: the budget a candidate
\* is funded from, or skipped with, is the ceiling less the amounts funded
\* before it in the cycle (candidates of 30 and 25 under a ceiling of 40 get
\* 30 and 10).
C24_AllocatedAmount ==
  /\ \A i \in OppIds :
       /\ opp[i].pc = "exec" =>
            LET e == opp[i].log[Len(opp[i].log)]
                c == opp[i].cands[opp[i].k]
            IN  /\ e.kind = "funded" /\ e.key = c.tradeKey
                /\ e.amount = RatMin(c.kellyAmount, e.before)
                /\ opp[i].alloc = e.amount /\ opp[i].remaining = e.before
       /\ InPhase3(i) =>
            \A n \in DOMAIN opp[i].log :
              /\ opp[i].log[n].before =
                   RatSub(opp[i].maxExposure,
                          SumAmounts(Funded(SubSeq(opp[i].log, 1, n - 1))))
              /\ opp[i].log[n].kind = "funded" =>
                   \E k \in DOMAIN trades :
                     /\ <<trades[k].market_id, trades[k].outcome>> = opp[i].log[n].key
                     /\ trades[k].amount = opp[i].log[n].amount
  /\ RatMin(Rat(30, 1), Rat(40, 1)) = AllocatedAmount(Rat(30, 1), Rat(40, 1))
  /\ AllocatedAmount(Rat(25, 1), RatSub(Rat(40, 1), Rat(30, 1))) = Rat(10, 1)

\* a cycle under a ceiling of 30 has funded two candidates sized 20 each: the
\* trades record 20 and 10
C24_Witness ==
  \E i \in OppIds :
    /\ opp[i].pc = "done" /\ opp[i].maxExposure = Rat(30, 1)
    /\ Len(Funded(opp[i].log)) = 2
    /\ \E a, b \in DOMAIN trades :
         /\ a < b /\ trades[a].amount = Rat(20, 1) /\ trades[b].amount = Rat(10, 1)
    /\ Funded(opp[i].log)[2].before = Rat(10, 1)

(***************************************************************************)
(* Position Sizer: the formula                                             *)
(***************************************************************************)
\* x limited to [lo, hi]
Clamped(x, lo, hi) == RatMax(lo, RatMin(hi, x))

\* the amount the sizing rule gives for an input with a price in (0, 1) and a
\* positive aligned edge
HalfKellyAmount(in) ==
  LET price == TokenPrice(in.analysis.outcome, in.prices)
      edge == AlignedEdge(in.analysis.compositeScore, in.analysis.outcome)
      p == Clamped(RatAdd(price, edge), Rat(5, 100), Rat(95, 100))
      odds == RatDiv(One, price)
      f == RatDiv(RatSub(RatMul(p, RatSub(odds, One)), RatSub(One, p)),
                  RatSub(odds, One))
      fraction == RatMin(Rat(25, 100), RatDiv(f, Rat(2, 1)))
  IN  IF RatLe(f, Zero) THEN Null
      ELSE Clamped(RatMul(fraction, in.config.bankroll), One,
                   RatMul(Rat(2, 1), in.config.tradeAmount))

\* price 0.60, score 0.5 for YES, bankroll 100, base amount 10
SizerExample ==
  [called |-> TRUE,
   analysis |-> [compositeScore |-> Rat(1, 2), outcome |-> "YES"],
   prices |-> [yes_price |-> Rat(6, 10), no_price |-> Rat(4, 10)],
   config |-> [tradeAmount |-> Rat(10, 1), bankroll |-> Rat(100, 1)]]

\* C25: for a price in (0, 1) and alignedEdge > 0 the sizer returns
\* clamp(min(0.25, f/2) * bankroll, 1, 2*baseAmount) with
\* estimatedProb = clamp(price + alignedEdge, 0.05, 0.95), odds = 1/price and
\* f = (p*(odds-1) - (1-p)) / (odds-1), and null when f <= 0; price 0.60,
\* score 0.5 for YES, bankroll 100 and base amount 10 give 20.
C25_SizerFormula ==
  /\ (/\ sizerOut.called /\ ValidSizerInput(sizerIn)
      /\ RatGt(TokenPrice(sizerIn.analysis.outcome, sizerIn.prices), Zero)
      /\ RatLt(TokenPrice(sizerIn.analysis.outcome, sizerIn.prices), One)
      /\ RatGt(AlignedEdge(sizerIn.analysis.compositeScore, sizerIn.analysis.outcome),
               Zero))
       => sizerOut.amount = HalfKellyAmount(sizerIn)
  /\ (sizerOut.called /\ sizerIn = SizerExample) => sizerOut.amount = Rat(20, 1)

\* the example was sized
C25_Witness ==
  sizerOut.called /\ sizerIn = SizerExample /\ sizerOut.amount = Rat(20, 1)

(***************************************************************************)
(* Composite Analyzer: the two worked scenarios                            *)
(***************************************************************************)
\* x is v when rounded to a multiple of 1/unit
RoundsTo(x, v, unit) ==
  RatLe(RatAbs(RatSub(x, v)), Rat(1, 2 * unit))

\* Scenario 1: the three providers succeed with scores (0.6, 0.4, 0.5), the
\* order flow's confidence is 0.8, the weights are (0.45, 0.30, 0.25)
Scenario1 ==
  [called |-> TRUE,
   technical |-> Fulfilled(Rat(6, 10), FALSE, Zero),
   news |-> Fulfilled(Rat(4, 10), FALSE, Zero),
   orderFlow |-> Fulfilled(Rat(5, 10), FALSE, Rat(8, 10)),
   weights |-> DEFAULT_WEIGHTS]

\* C26 as stated: Scenario 1 yields compositeScore = 0.53 (to two decimals),
\* confidence = 0.9*0.7 + 0.8*0.3 = 0.87 and the decision BUY YES with the
\* hint increased.
C26_Scenario1AsStated ==
  (anOut.called /\ anIn = Scenario1) =>
    /\ RoundsTo(anOut.result.compositeScore, Rat(53, 100), 100)
    /\ anOut.result.confidence = Rat(87, 100)
    /\ anOut.result.decision = "BUY" /\ anOut.result.outcome = "YES"
    /\ anOut.result.tradeAmount = "increased"

\* C26, amended: Scenario 1 yields compositeScore
\* = 0.6*0.45 + 0.4*0.30 + 0.5*0.25 = 0.515, confidence = 0.87 and the
\* decision BUY YES with the hint increased.
C26_Scenario1 ==
  (anOut.called /\ anIn = Scenario1) =>
    /\ anOut.result.compositeScore = Rat(515, 1000)
    /\ anOut.result.confidence = Rat(87, 100)
    /\ anOut.result.decision = "BUY" /\ anOut.result.outcome = "YES"
    /\ anOut.result.tradeAmount = "increased"

\* Scenario 1 was analysed without an error
C26_Witness ==
  anOut.called /\ anIn = Scenario1 /\ ~anOut.result.error

\* Scenario 2: the technical provider errors, news = 0.2 and orderFlow = 0.1
\* succeed, the weights are (0.45, 0.30, 0.25)
Scenario2 ==
  {[called |-> TRUE, technical |-> t,
    news |-> Fulfilled(Rat(2, 10), FALSE, Zero),
    orderFlow |-> Fulfilled(Rat(1, 10), FALSE, Rat(8, 10)),
    weights |-> DEFAULT_WEIGHTS] : t \in {Rejected, Fulfilled(Zero, TRUE, Zero)}}

\* the effective weights of Scenario 2
Scenario2Weights ==
  [technical |-> Zero, news |-> RatDiv(Rat(30, 100), Rat(55, 100)),
   orderFlow |-> RatDiv(Rat(25, 100), Rat(55, 100))]

\* C27 as stated: in Scenario 2 the effective weights are technical 0,
\* news 0.30/0.55, orderFlow 0.25/0.55, compositeScore = 0.1345 (to four
\* decimals) and the decision is HOLD.
C27_Scenario2AsStated ==
  (anOut.called /\ anIn \in Scenario2) =>
    /\ anOut.result.weights = Scenario2Weights
    /\ RoundsTo(anOut.result.compositeScore, Rat(1345, 10000), 10000)
    /\ anOut.result.decision = "HOLD"

\* C27, amended: in Scenario 2 the effective weights are technical 0,
\* news 0.30/0.55, orderFlow 0.25/0.55, compositeScore
\* = 0.2*0.30/0.55 + 0.1*0.25/0.55 = 0.1545 (17/110) and the decision is HOLD.
C27_Scenario2 ==
  (anOut.called /\ anIn \in Scenario2) =>
    /\ anOut.result.weights = Scenario2Weights
    /\ anOut.result.compositeScore = Rat(17, 110)
    /\ RoundsTo(anOut.result.compositeScore, Rat(1545, 10000), 10000)
    /\ anOut.result.decision = "HOLD" /\ anOut.result.outcome = "null"

\* Scenario 2 was analysed, the technical provider's promise rejected
C27_Witness ==
  /\ anOut.called /\ anIn \in Scenario2 /\ anIn.technical = Rejected
  /\ ~anOut.result.error

RejectedInPhase1(analysis, prices, cfg) ==
  \/ ~WithinGuards(TokenPrice(analysis.outcome, prices), cfg)
  \/ IsNull(calculateKellyAmount(analysis, prices, cfg))

\* this step persists no trade for the pair
NoTradeFor(key) ==
  \A k \in (Len(trades) + 1)..Len(trades') :
    <<trades'[k].market_id, trades'[k].outcome>> # key

\* C29: a BUY for a pair not yet traded that is rejected by the odds range,
\* by the risk/reward guard, by the sizer or by the exhaustion of the budget
\* emits a tradeSkipped event with a reason, persists no trade, emits no
\* error event and does not add the pair to the set of traded pairs.
C29_RejectionsAreSkips ==
  [][\A i \in OppIds :
       /\ (opp[i].pc = "analyze" /\ opp'[i] # opp[i]) =>
            LET a == anIn'.analysis
                key == <<anIn'.market.market_id, a.outcome>>
            IN  (/\ a.decision = "BUY" /\ key \notin processedTrades
                 /\ RejectedInPhase1(a, anIn'.prices, config))
                  => /\ \E n \in DOMAIN exOut'.events :
                          /\ exOut'.events[n].name = "tradeSkipped"
                          /\ exOut'.events[n].market_id = key[1]
                          /\ exOut'.events[n].reason # ""
                     /\ \A n \in DOMAIN exOut'.events : exOut'.events[n].name # "error"
                     /\ key \notin processedTrades'
                     /\ NoTradeFor(key)
                     /\ \A k \in DOMAIN opp'[i].cands : opp'[i].cands[k].tradeKey # key
       /\ (opp[i].pc = "exec" /\ opp'[i] # opp[i]) =>
            LET last == IF opp'[i].pc = "exec" THEN opp'[i].k - 1 ELSE Len(opp[i].cands)
                left == RatSub(opp[i].remaining, opp[i].alloc)
            IN  /\ RatLe(left, Zero) => opp'[i].pc = "done"
                /\ \A k \in (opp[i].k + 1)..last :
                     LET key == opp[i].cands[k].tradeKey
                     IN  /\ \E n \in (Len(opp[i].log) + 1)..Len(opp'[i].log) :
                              /\ opp'[i].log[n].kind = "budget_exhausted"
                              /\ opp'[i].log[n].key = key
                         /\ key \notin processedTrades => key \notin processedTrades'
                         /\ NoTradeFor(key)]_vars

\* the sizer has just rejected a BUY (a tradeSkipped names the Kelly
\* criterion), and a cycle has skipped a candidate for lack of budget whose
\* pair is still untraded
C29_Witness ==
  /\ exOut.called
  /\ \E n \in DOMAIN exOut.events :
       exOut.events[n].reason = "Kelly criterion shows no edge during budget allocation"
  /\ \E i \in OppIds : \E k \in DOMAIN opp[i].log :
       /\ opp[i].log[k].kind = "budget_exhausted"
       /\ opp[i].log[k].key \notin processedTrades

(***************************************************************************)
(* Paper execution                                                         *)
(***************************************************************************)
\* invocation i hands a candidate to executeTrade in this step
Executes(i) ==
  /\ opp'[i].pc = "exec" /\ opp'[i] # opp[i]
  /\ executed'[opp'[i].cands[opp'[i].k].tradeKey]
       = executed[opp'[i].cands[opp'[i].k].tradeKey] + 1

C31_IteratesOneList ==
  [][\A i \in OppIds :
       /\ (opp[i].pc \in {"idle", "done"} /\ opp'[i].pc = "analyze"
            => opp'[i].list = markets)
       /\ (opp[i].pc = "analyze" /\ opp'[i] # opp[i]
            => /\ anIn'.called /\ anIn'.market = opp[i].list[opp[i].idx]
               /\ (opp'[i].pc = "analyze" => opp'[i].list = opp[i].list))]_vars

\* a scan that brought another list has completed while a cycle had analyzed
\* the first market of the old list and waits for the analysis of the second
C31_Witness ==
  \E i \in OppIds :
    /\ opp[i].pc = "analyze" /\ opp[i].idx = 2 /\ opp[i].list = AllMarkets
    /\ anIn.called /\ anIn.market = AllMarkets[1]
    /\ Len(markets) = 1 /\ markets[1] = AllMarkets[2]

(***************************************************************************)
(* LiveTrader: safety                                                      *)
(***************************************************************************)
\* C32: placeOrder never throws: a call that has ended has returned a result,
\* and a result that is not a success carries an error message; and no order
\* is submitted (createAndPostOrder is not called) when size * price exceeds
\* MAX_LIVE_TRADE_AMOUNT, when the client is not initialized, or when the
\* side is not BUY: such a call ends with success = false.
C32_LiveTraderSafety ==
  LET lt == liveTrader
      refused == \/ RatGt(RatMul(lt.params.size, lt.params.price), lt.maxTradeAmount)
                 \/ lt.params.side # "BUY"
                 \/ (lt.pc # "initialize" /\ ~lt.initialized)
  IN  /\ lt.pc = "returned"
         => /\ lt.result.kind = "returned"
            /\ lt.result.success \in BOOLEAN
            /\ (~lt.result.success => lt.result.errorMsg # "")
      /\ (lt.pc # "idle" /\ refused) => ~lt.submitted
      /\ (lt.pc = "returned" /\ refused) => ~lt.result.success
      /\ lt.pc = "initialize" => ~lt.submitted

\* an initialized trader, its first order behind it, has refused a BUY order
\* of 60 dollars
C32_Witness ==
  LET lt == liveTrader
  IN  /\ lt.pc = "returned" /\ ~lt.result.success
      /\ lt.result.errorMsg = "Trade amount exceeds MAX_LIVE_TRADE_AMOUNT"
      /\ lt.params.side = "BUY" /\ lt.initialized /\ ~lt.firstTrade
      /\ lt.params.size = Rat(100, 1) /\ lt.params.price = Rat(6, 10)

(***************************************************************************)
(* News sentiment: the shared CoinGecko request                            *)
(***************************************************************************)
\* the request's promise chain has not finished: the request is in flight, or
\* it has settled and the handler of `finally` is yet to run
Unfinished(r) == fetches.requests[r].state \in {"pending", "fulfilled", "rejected"}

\* caller c is called in this step
Called(c) == fetches.callers[c].pc # "await" /\ fetches'.callers[c] # fetches.callers[c]

\* C33: at most one CoinGecko request is in flight; the callers that missed
\* the cache and wait all await the one request whose promise the cache
\* holds; a call that finds a cache entry younger than 60 s returns from it and
\* sends no request; and once the awaited promise has settled, fulfilled or
\* rejected, the in-flight slot is cleared (a caller that went on never
\* leaves its request in the slot).
C33_RequestSharing ==
  /\ [](/\ Cardinality({r \in RequestIds : Unfinished(r)}) <= 1
        /\ \A c \in CallerIds :
             (fetches.callers[c].pc = "await" /\ Unfinished(fetches.callers[c].awaits))
               => fetches.callers[c].awaits = coinGeckoCache.promise
        /\ \A r \in RequestIds :
             /\ fetches.requests[r].state \in {"resolved", "failed"} => coinGeckoCache.promise # r
             /\ fetches.requests[r].state = "pending" => coinGeckoCache.promise = r
        /\ coinGeckoCache.promise # 0 => Unfinished(coinGeckoCache.promise))
  /\ [][\A c \in CallerIds :
         (/\ Called(c)
          /\ coinGeckoCache.data.present
          /\ now - coinGeckoCache.timestamp < 60)
           => /\ fetches'.requests = fetches.requests
              /\ coinGeckoCache' = coinGeckoCache
              /\ fetches'.callers[c].pc = "returned"
              /\ fetches'.callers[c].served = "cache"]_vars

\* two callers wait for the one request in flight, after an earlier request
\* failed and its slot was cleared
C33_Witness ==
  /\ \A c \in {1, 2} : fetches.callers[c].pc = "await" /\ fetches.callers[c].awaits = 2
  /\ fetches.requests[1].state = "failed"
  /\ fetches.requests[2].state = "pending"
  /\ coinGeckoCache.promise = 2

(***************************************************************************)
(* Engine state machine: no activity while stopped                         *)
(***************************************************************************)
\* C34: while the engine is stopped (after stop() returned and until the
\* next start()) no trade is opened and no trade is settled: the trades
\* table does not change in a step taken with isRunning false.
C34_NoActivityWhileStopped == [][~isRunning => trades' = trades]_vars

(***************************************************************************)
(* Candidate Allocator: the minimum trade size                             *)
(***************************************************************************)
\* C35: every trade the opportunity cycle persists has an amount in
\* [1, 2 * baseAmount]: the allocator, shrinking an amount to the remaining
\* budget, never funds a candidate with less than the floor of one dollar.
C35_MinimumTradeSize ==
  \A k \in 1..Len(trades) :
    /\ RatGe(trades[k].amount, One)
    /\ RatLe(trades[k].amount,
             RatMul(Rat(2, 1), OrDefault(config.tradeAmount, DEFAULT_TRADE_AMOUNT)))

(***************************************************************************)
(* Opportunity cycle: the de-duplication set and the trades table          *)
(***************************************************************************)
\* C36: in every reachable state (records never cleared) each key of the
\* de-duplication set has a persisted trade for its market and outcome: no
\* key is recorded for an execution attempt that persisted nothing.
C36_DedupMatchesTrades ==
  \A key \in processedTrades :
    \E k \in 1..Len(trades) :
      trades[k].market_id = key[1] /\ trades[k].outcome = key[2]

(***************************************************************************)
(* Composite Analyzer: a failed order flow                                 *)
(***************************************************************************)
\* the order-flow provider failed: its promise rejected, or it returned an
\* error with score 0 and confidence 0
OrderFlowFailed(orderFlow) ==
  \/ orderFlow.status = "rejected"
  \/ /\ orderFlow.status = "fulfilled" /\ orderFlow.error
     /\ orderFlow.score = Zero /\ orderFlow.confidence = Zero

\* C37: whenever the order-flow provider fails, analyzeMarket returns HOLD
\* (with no outcome), for every combination of technical and news results
\* and every weight triple.
C37_OrderFlowFailureHolds ==
  (anOut.called /\ OrderFlowFailed(anIn.orderFlow))
    => anOut.result.decision = "HOLD" /\ anOut.result.outcome = "null"

\* a call whose order flow rejected while the technical and the news scores
\* agree on a composite score above the strong threshold
C37_Witness ==
  /\ anOut.called /\ anIn.orderFlow = Rejected
  /\ anIn.technical = Fulfilled(Rat(6, 10), FALSE, Zero)
  /\ anIn.news = Fulfilled(Rat(4, 10), FALSE, Zero)
  /\ anIn.weights = DEFAULT_WEIGHTS
  /\ RatGt(anOut.result.compositeScore, STRONG_COMPOSITE_SCORE)
  /\ anOut.result.confidence = Rat(7, 15)
  /\ anOut.result.decision = "HOLD"

(***************************************************************************)
(* Composite Analyzer: decision and outcome                                *)
(***************************************************************************)
\* C38: in every result of analyzeMarket the decision is BUY iff the outcome
\* is not null; the outcome YES comes with a composite score above 0.35 and
\* the outcome NO with one below -0.35; hence for every BUY the sizer's
\* aligned edge (compositeScore times +1 for YES, -1 for NO) is strictly
\* positive and its rejection of a misaligned edge is not taken.
C38_DecisionOutcomeConsistent ==
  anOut.called =>
    LET r == anOut.result
    IN  /\ r.decision \in {"BUY", "HOLD"}
        /\ r.decision = "BUY" <=> r.outcome # "null"
        /\ r.outcome \in {"YES", "NO", "null"}
        /\ r.outcome = "YES" => RatGt(r.compositeScore, Rat(35, 100))
        /\ r.outcome = "NO" => RatLt(r.compositeScore, Rat(-35, 100))
        /\ r.decision = "BUY"
             => /\ RatGt(AlignedEdge(r.compositeScore, r.outcome), Zero)
                /\ ~RatLe(AlignedEdge(r.compositeScore, r.outcome), Zero)

\* a BUY of NO on a composite score below -0.35, its aligned edge positive
C38_Witness ==
  /\ anOut.called /\ anOut.result.decision = "BUY" /\ anOut.result.outcome = "NO"
  /\ RatLt(anOut.result.compositeScore, Rat(-35, 100))
  /\ RatGt(AlignedEdge(anOut.result.compositeScore, "NO"), Rat(35, 100))

(***************************************************************************)
(* Settlement: the PnL of a settled trade                                  *)
(***************************************************************************)
\* trades as executeTrade fills them, from half a dollar to twenty, at prices
\* from 0.01 to 0.99: shares = amount / price
FilledTrades ==
  {[outcome |-> o, amount |-> a, price |-> p, shares |-> RatDiv(a, p)] :
     o \in Outcomes, a \in {Rat(1, 2), One, Rat(20, 1)},
     p \in {Rat(1, 100), Rat(2, 5), Rat(99, 100)}}

\* C39: for every trade with an amount above 0 and a fill price strictly
\* between 0 and 1, settlement writes a strictly positive PnL on a win and a
\* strictly negative PnL on a loss: a settled trade never carries the PnL 0
\* of an unsettled one, and it is no longer among the unsettled paper trades.
C39_SettledPnlNonZero ==
  /\ \A r \in DOMAIN trades :
       LET t == trades[r]
       IN  (/\ Settled(t.id)
            /\ RatGt(t.amount, Zero) /\ RatGt(t.price, Zero) /\ RatLt(t.price, One))
             => /\ IF t.outcome = ResolvedSide(t.notes.slug)
                   THEN RatGt(t.pnl, Zero) ELSE RatLt(t.pnl, Zero)
                /\ t.pnl # Zero
                /\ \A u \in DOMAIN getUnsettledPaperTrades(trades) :
                     getUnsettledPaperTrades(trades)[u].id # t.id
  /\ \A t \in FilledTrades, winner \in Outcomes :
       IF t.outcome = winner
       THEN RatGt(calculatedPnl(t, winner), Zero)
       ELSE RatLt(calculatedPnl(t, winner), Zero)

\* both paper trades are settled, one won and one lost, and no paper trade is
\* left unsettled
C39_Witness ==
  /\ \E r \in DOMAIN trades :
       /\ Settled(trades[r].id) /\ trades[r].outcome = ResolvedSide(trades[r].notes.slug)
       /\ RatGt(trades[r].pnl, Zero)
  /\ \E r \in DOMAIN trades :
       /\ Settled(trades[r].id) /\ trades[r].outcome # ResolvedSide(trades[r].notes.slug)
       /\ RatLt(trades[r].pnl, Zero)
  /\ getUnsettledPaperTrades(trades) = <<>>

\* C40: a step that settles a trade writes only the PnL of that trade and the
\* aggregate stats of the status row: the trade's id, status, amount, shares,
\* price, side, outcome, mode, market and notes are as before, every other
\* trade is as before and no trade is added or removed, and the market list
\* and the set of processed trades are untouched.
C40_SettlementFrame ==
  [][settled' # settled =>
       LET id == settled'[Len(settled')]
       IN  /\ DOMAIN trades' = DOMAIN trades
           /\ \A r \in DOMAIN trades :
                IF trades[r].id = id
                THEN /\ trades'[r].id = trades[r].id
                     /\ trades'[r].status = trades[r].status
                     /\ trades'[r].amount = trades[r].amount
                     /\ trades'[r].shares = trades[r].shares
                     /\ trades'[r].price = trades[r].price
                     /\ trades'[r].side = trades[r].side
                     /\ trades'[r].outcome = trades[r].outcome
                     /\ trades'[r].mode = trades[r].mode
                     /\ trades'[r].market_id = trades[r].market_id
                     /\ trades'[r].notes = trades[r].notes
                ELSE trades'[r] = trades[r]
           /\ markets' = markets
           /\ processedTrades' = processedTrades
           /\ dbStatus'.is_running = dbStatus.is_running
           /\ dbStatus'.mode = dbStatus.mode]_vars

\* one trade is settled and carries its PnL with the status it was filled
\* with, beside a trade that is not settled and still carries the PnL 0, with
\* markets in the list
C40_Witness ==
  /\ markets # <<>>
  /\ \E r, q \in DOMAIN trades :
       /\ Settled(trades[r].id) /\ trades[r].pnl # Zero
       /\ trades[r].status = "filled"
       /\ ~Settled(trades[q].id) /\ trades[q].pnl = Zero

====
